---- MODULE Spec2Model ----
(***************************************************************************)
(* RationSmart MCP server: the tool registry, the call_tool dispatcher,    *)
(* country resolution and the /mcp JSON-RPC endpoint (src/src/server.py),  *)
(* over the backend client of src/src/client.py.                           *)
(*                                                                         *)
(* Python strings are TLA+ strings (TLC evaluates Len, SubSeq and \o on    *)
(* them).  Python's None is the sentinel string None.                      *)
(***************************************************************************)
EXTENDS Integers, Sequences, FiniteSets, TLC

VARIABLES
    \* the module-level registry of server.py
    TOOLS, TOOL_ALIASES, TOOL_TITLES,
    \* one run of _resolve_country_id
    countries, country_code, country_name, mapped_code, match_id, rpc,
    \* client.py's global _client and the number of clients constructed
    _client, constructed,
    \* the current call_tool invocation: the name passed in, the name after
    \* alias resolution, the argument bag, the backend operations issued and
    \* their replies, the text returned, whether an exception left call_tool
    tool_name, call_name, call_arguments, ops, replies, call_result, propagated, pc,
    \* what list_tools returned
    listing,
    \* one request to /mcp: the parsed body, the Accept header, the response
    \* and where mcp_endpoint is
    request, accept, response, mpc,
    \* the exchange before this one, kept when one request is sent twice
    previous,
    \* one run of _extract_diet_summary and _format_diet_schedule: the
    \* optimization result, the feed names dict, the summary, the rendered
    \* text and the position
    diet_result, diet_lookup, diet_out, diet_text, dpc,
    \* the serving process: the tool calls in flight with the handle each
    \* holds, the handles being closed and closed, the close_client calls in
    \* flight and how many were made, the handles used for a backend
    \* operation, and whether the server still serves
    tasks, closing, closed, closers, closes, used, server

registryVars == <<TOOLS, TOOL_ALIASES, TOOL_TITLES>>
resolveVars == <<countries, country_code, country_name, mapped_code, match_id, rpc>>
clientVars == <<_client, constructed>>
callVars == <<tool_name, call_name, call_arguments, ops, replies, call_result,
              propagated, pc, listing>>
mcpVars == <<request, accept, response, mpc, previous>>
summaryVars == <<diet_result, diet_lookup, diet_out, diet_text, dpc>>
serveVars == <<tasks, closing, closed, closers, closes, used, server>>

-----------------------------------------------------------------------------
(* Values *)

None == "<None>"

\* Longest country list the backend returns in the model.
MaxCountries == 2

-----------------------------------------------------------------------------
(* str.strip, str.lower, str.split, str.join, the "in" operator *)

Upper == "ABCDEFGHIJKLMNOPQRSTUVWXYZ"
Lowercase == "abcdefghijklmnopqrstuvwxyz"

CharAt(s, i) == SubSeq(s, i, i)

IsSpace(c) == c \in {" ", "\t", "\n", "\r"}

LowerTable == [i \in 1..Len(Upper) |-> <<CharAt(Upper, i), CharAt(Lowercase, i)>>]

UpperChars == {LowerTable[i][1] : i \in 1..Len(Upper)}

LowerOf == [c \in UpperChars |->
              LowerTable[CHOOSE i \in 1..Len(Upper) : LowerTable[i][1] = c][2]]

LowerChar(c) == IF c \in UpperChars THEN LowerOf[c] ELSE c

\* every character lower-cased; the string is halved so that the depth of
\* the evaluation grows with the logarithm of its length
RECURSIVE Lower(_)
Lower(s) ==
    IF s = "" THEN ""
    ELSE IF Len(s) = 1 THEN LowerChar(s)
    ELSE Lower(SubSeq(s, 1, Len(s) \div 2))
         \o Lower(SubSeq(s, Len(s) \div 2 + 1, Len(s)))

RECURSIVE LStrip(_)
LStrip(s) == IF s # "" /\ IsSpace(Head(s)) THEN LStrip(Tail(s)) ELSE s

RECURSIVE RStrip(_)
RStrip(s) ==
    IF s # "" /\ IsSpace(CharAt(s, Len(s)))
    THEN RStrip(SubSeq(s, 1, Len(s) - 1))
    ELSE s

Strip(s) == RStrip(LStrip(s))

\* str.split() with no separator: the maximal runs of non-space characters.
RECURSIVE SplitFrom(_, _)
SplitFrom(s, word) ==
    IF s = "" THEN (IF word = "" THEN <<>> ELSE <<word>>)
    ELSE IF IsSpace(Head(s))
         THEN (IF word = "" THEN <<>> ELSE <<word>>) \o SplitFrom(Tail(s), "")
         ELSE SplitFrom(Tail(s), word \o Head(s))

Split(s) == SplitFrom(s, "")

RECURSIVE Join(_, _)
Join(sep, words) ==
    IF words = <<>> THEN ""
    ELSE IF Len(words) = 1 THEN words[1]
    ELSE words[1] \o sep \o Join(sep, Tail(words))

\* needle in hay
Contains(hay, needle) ==
    \E i \in 1..(Len(hay) - Len(needle) + 1) :
        SubSeq(hay, i, i + Len(needle) - 1) = needle

StartsWith(s, prefix) ==
    Len(s) >= Len(prefix) /\ SubSeq(s, 1, Len(prefix)) = prefix

-----------------------------------------------------------------------------
(* Country resolution *)

COUNTRY_CODE_OVERRIDES ==
    ("vn" :> "vnm") @@ ("in" :> "ind") @@ ("et" :> "eth") @@ ("id" :> "idn") @@
    ("ph" :> "phl") @@ ("pk" :> "pak") @@ ("bd" :> "bgd") @@ ("np" :> "npl") @@
    ("ke" :> "ken") @@ ("tz" :> "tza") @@ ("ug" :> "uga")

\* The names and codes of the model's country lists and candidates, whose
\* normal forms are computed once.
KnownStrings ==
    {None, "", " VIET  Nam ", "nam", "Viet Nam Dong", "Peru", "Viet Nam",
     "Viet", "Laos", " IN ", "In", " vn ", "VNM", "xx", "VN", "LAO"}

NameNormalForm == [v \in KnownStrings |-> Join(" ", Split(Lower(Strip(v))))]

CodeNormalForm == [v \in KnownStrings |-> Lower(Strip(v))]

_normalize_name(value) ==
    IF value = None \/ value = "" THEN ""
    ELSE IF value \in KnownStrings THEN NameNormalForm[value]
    ELSE Join(" ", Split(Lower(Strip(value))))

_normalize_code(value) ==
    IF value = None \/ value = "" THEN ""
    ELSE IF value \in KnownStrings THEN CodeNormalForm[value]
    ELSE Lower(Strip(value))

\* Mutant of MappedCode: the table is consulted with the code as typed.
MappedCode_Unnormalized(code_arg) ==
    IF code_arg \in DOMAIN COUNTRY_CODE_OVERRIDES
    THEN COUNTRY_CODE_OVERRIDES[code_arg]
    ELSE _normalize_code(code_arg)

\* COUNTRY_CODE_OVERRIDES.get(code, code) of the normalized code
MappedCode(code_arg) ==
    LET code == _normalize_code(code_arg)
    IN  IF code \in DOMAIN COUNTRY_CODE_OVERRIDES
        THEN COUNTRY_CODE_OVERRIDES[code]
        ELSE code

\* next((c for c in cs if <test>), None), flags[i] being the test on the
\* i-th record: the index of the first record that passes, 0 for None.
FirstIndex(flags) ==
    IF \E i \in 1..Len(flags) : flags[i]
    THEN CHOOSE i \in 1..Len(flags) :
            flags[i] /\ \A j \in 1..(i - 1) : ~flags[j]
    ELSE 0

NameEquals(c, normalized_name) == _normalize_name(c.name) = normalized_name

CodeEquals(c, mapped) == _normalize_code(c.country_code) = mapped

NameOverlaps(c, normalized_name) ==
    \/ Contains(_normalize_name(c.name), normalized_name)
    \/ Contains(normalized_name, _normalize_name(c.name))

\* "x if x else y" for the position of a match
OrElse(m, alternative) == IF m # 0 THEN m ELSE alternative

\* Mutant of ResolveMatch: the code step runs before the exact-name step.
ResolveMatch_CodeFirst(cs, code_arg, name_arg) ==
    LET normalized_name == _normalize_name(name_arg)
        mapped == MappedCode(code_arg)
        byName == [i \in 1..Len(cs) |-> NameEquals(cs[i], normalized_name)]
        byCode == [i \in 1..Len(cs) |-> CodeEquals(cs[i], mapped)]
        bySub == [i \in 1..Len(cs) |-> NameOverlaps(cs[i], normalized_name)]
        byActive == [i \in 1..Len(cs) |-> cs[i].is_active]
    IN  OrElse(OrElse(OrElse(
            IF mapped # "" THEN FirstIndex(byCode) ELSE 0,
            IF normalized_name # "" THEN FirstIndex(byName) ELSE 0),
            IF normalized_name # "" THEN FirstIndex(bySub) ELSE 0),
            FirstIndex(byActive))

\* The record _resolve_country_id settles on (0: none), the country list
\* being the reply of client.get_countries(): each step runs only if no
\* earlier step found a record.
ResolveMatch(cs, code_arg, name_arg) ==
    LET normalized_name == _normalize_name(name_arg)
        mapped == MappedCode(code_arg)
        byName == [i \in 1..Len(cs) |-> NameEquals(cs[i], normalized_name)]
        byCode == [i \in 1..Len(cs) |-> CodeEquals(cs[i], mapped)]
        bySub == [i \in 1..Len(cs) |-> NameOverlaps(cs[i], normalized_name)]
        byActive == [i \in 1..Len(cs) |-> cs[i].is_active]
    IN  OrElse(OrElse(OrElse(
            IF normalized_name # "" THEN FirstIndex(byName) ELSE 0,
            IF mapped # "" THEN FirstIndex(byCode) ELSE 0),
            IF normalized_name # "" THEN FirstIndex(bySub) ELSE 0),
            FirstIndex(byActive))

\* Mutant of IdOfMatch: with no match the first listed record is taken.
IdOfMatch_Guess(cs, m) ==
    IF m # 0 THEN cs[m].id ELSE IF cs # <<>> THEN cs[1].id ELSE None

\* match.get("id") if match else None
IdOfMatch(cs, m) == IF m # 0 THEN cs[m].id ELSE None

_resolve_country_id(cs, code_arg, name_arg) ==
    IdOfMatch(cs, ResolveMatch(cs, code_arg, name_arg))

-----------------------------------------------------------------------------
(* Inputs of country resolution *)

CandidateNames == {None, " VIET  Nam ", "nam", "Viet Nam Dong", "Peru"}

CandidateCodes == {None, " IN ", "In", " vn ", "VNM", "xx"}

RecordNames == {None, "Viet Nam", "Viet"}

RecordCodes == {None, "VNM"}

CountryId(i) == "c" \o ToString(i)

\* The backend's country lists: ids are distinct, in listed order.
CountryLists ==
    UNION { { [i \in 1..n |->
                 [id |-> CountryId(i), name |-> ns[i],
                  country_code |-> ks[i], is_active |-> as[i]]] :
              ns \in [1..n -> RecordNames],
              ks \in [1..n -> RecordCodes],
              as \in [1..n -> BOOLEAN] } : n \in 0..MaxCountries }

-----------------------------------------------------------------------------
(* The registry *)

\* TOOLS as built at import: each descriptor's name and the "required" list
\* of its inputSchema.
ToolTable == <<
    [name |-> "rationsmart.countries.list", required |-> <<>>],
    [name |-> "rationsmart.breeds.list", required |-> <<"country_id">>],
    [name |-> "rationsmart.location.resolve", required |-> <<"latitude", "longitude">>],
    [name |-> "rationsmart.countries.resolve", required |-> <<>>],
    [name |-> "rationsmart.cows.create", required |-> <<"device_id", "name">>],
    [name |-> "rationsmart.cows.list", required |-> <<"device_id">>],
    [name |-> "rationsmart.cows.get", required |-> <<"device_id", "cow_id">>],
    [name |-> "rationsmart.cows.update", required |-> <<"device_id", "cow_id">>],
    [name |-> "rationsmart.cows.delete", required |-> <<"device_id", "cow_id">>],
    [name |-> "rationsmart.diets.generate", required |-> <<"device_id", "cow_id">>],
    [name |-> "rationsmart.diets.schedule.get", required |-> <<"device_id", "cow_id">>],
    [name |-> "rationsmart.diets.history.list", required |-> <<"device_id">>],
    [name |-> "rationsmart.diets.follow", required |-> <<"device_id", "diet_id">>],
    [name |-> "rationsmart.diets.unfollow", required |-> <<"device_id", "diet_id">>] >>

\* Mutant of AliasTable: one alias names a tool that was renamed away.
AliasTable_Stale ==
    ("get_countries" :> "rationsmart.countries.all") @@
    ("get_breeds" :> "rationsmart.breeds.list")

\* Mutant of AliasTable: a canonical name is itself a key of the table.
AliasTable_Shadow ==
    ("rationsmart.cows.get" :> "rationsmart.cows.list") @@
    ("get_cow" :> "rationsmart.cows.get") @@
    ("list_cows" :> "rationsmart.cows.list")

AliasTable ==
    ("get_countries" :> "rationsmart.countries.list") @@
    ("get_breeds" :> "rationsmart.breeds.list") @@
    ("resolve_location" :> "rationsmart.location.resolve") @@
    ("resolve_country_id" :> "rationsmart.countries.resolve") @@
    ("create_cow" :> "rationsmart.cows.create") @@
    ("list_cows" :> "rationsmart.cows.list") @@
    ("get_cow" :> "rationsmart.cows.get") @@
    ("update_cow" :> "rationsmart.cows.update") @@
    ("delete_cow" :> "rationsmart.cows.delete") @@
    ("generate_diet" :> "rationsmart.diets.generate") @@
    ("get_diet_schedule" :> "rationsmart.diets.schedule.get") @@
    ("get_diet_history" :> "rationsmart.diets.history.list") @@
    ("follow_diet" :> "rationsmart.diets.follow") @@
    ("stop_following_diet" :> "rationsmart.diets.unfollow")

TitleTable ==
    ("rationsmart.countries.list" :> "List Countries") @@
    ("rationsmart.breeds.list" :> "List Breeds") @@
    ("rationsmart.location.resolve" :> "Resolve Location") @@
    ("rationsmart.countries.resolve" :> "Resolve Country ID") @@
    ("rationsmart.cows.create" :> "Create Cow Profile") @@
    ("rationsmart.cows.list" :> "List Cow Profiles") @@
    ("rationsmart.cows.get" :> "Get Cow Details") @@
    ("rationsmart.cows.update" :> "Update Cow Profile") @@
    ("rationsmart.cows.delete" :> "Delete Cow Profile") @@
    ("rationsmart.diets.generate" :> "Generate Diet") @@
    ("rationsmart.diets.schedule.get" :> "Get Diet Schedule") @@
    ("rationsmart.diets.history.list" :> "List Diet History") @@
    ("rationsmart.diets.follow" :> "Follow Diet") @@
    ("rationsmart.diets.unfollow" :> "Stop Following Diet")

InitRegistry ==
    /\ TOOLS = ToolTable
    /\ TOOL_ALIASES = AliasTable
    /\ TOOL_TITLES = TitleTable

\* TOOL_ALIASES.get(n, n)
AliasGet(aliases, n) == IF n \in DOMAIN aliases THEN aliases[n] ELSE n

ToolNames(tools) == {tools[i].name : i \in 1..Len(tools)}

-----------------------------------------------------------------------------
(* Argument bags.  A JSON value that is not a string is written in angle  *)
(* brackets; None is JSON null.                                            *)

Absent == "<absent>"
Zero == "<0>"
True == "<True>"
False == "<False>"

\* not v
Falsy(v) == v \in {None, "", Zero, False}

ArgKeys == {"device_id", "cow_id", "name", "diet_id", "country_id",
            "country_code", "country_name", "latitude", "longitude",
            "save_diet", "permanent", "body_weight"}

\* arguments.get(k) and arguments.get(k, default)
Get(arguments, k) ==
    IF arguments.kv[k] = Absent THEN None ELSE arguments.kv[k]

\* Mutant of GetOr: the argument is not looked at.
GetOr_Ignored(arguments, k, default) == default

GetOr(arguments, k, default) ==
    IF arguments.kv[k] = Absent THEN default ELSE arguments.kv[k]

Bag(f) == [is_dict |-> TRUE,
           kv |-> [k \in ArgKeys |-> IF k \in DOMAIN f THEN f[k] ELSE Absent]]

\* an "arguments" value that is not a dict (a JSON array)
NotADict == [is_dict |-> FALSE, kv |-> [k \in ArgKeys |-> Absent]]

ArgValues(k) ==
    CASE k = "device_id" -> {Absent, "", "dev1"}
      [] k = "cow_id" -> {Absent, "", "cow1"}
      [] k = "name" -> {Absent, "", "Ganga"}
      [] k = "diet_id" -> {Absent, "", "diet1"}
      [] k = "country_id" -> {Absent, "c9"}
      [] k = "country_code" -> {Absent, " vn "}
      [] k = "country_name" -> {Absent, "Peru"}
      [] k = "latitude" -> {Absent, Zero, ""}
      [] k = "longitude" -> {Absent, Zero}
      [] k = "save_diet" -> {Absent, True, False}
      [] k = "permanent" -> {Absent, True}
      [] k = "body_weight" -> {Absent, "<450>"}

RECURSIVE BagsOver(_)
BagsOver(keys) ==
    IF keys = {} THEN {<<>>}
    ELSE LET k == CHOOSE x \in keys : TRUE
         IN  {(k :> v) @@ g : v \in ArgValues(k), g \in BagsOver(keys \ {k})}

\* The keys a handler reads; the keys it never reads stay absent.
KeysRead(name) ==
    CASE name = "rationsmart.breeds.list" -> {"country_id"}
      [] name = "rationsmart.location.resolve" -> {"latitude", "longitude"}
      [] name = "rationsmart.countries.resolve" ->
            {"country_code", "country_name", "latitude", "longitude"}
      [] name = "rationsmart.cows.create" -> {"device_id", "name"}
      [] name = "rationsmart.cows.list" -> {"device_id"}
      [] name = "rationsmart.cows.get" -> {"device_id", "cow_id"}
      [] name = "rationsmart.cows.update" ->
            {"device_id", "cow_id", "name", "body_weight"}
      [] name = "rationsmart.cows.delete" -> {"device_id", "cow_id", "permanent"}
      [] name = "rationsmart.diets.generate" ->
            {"device_id", "cow_id", "country_id", "country_code",
             "country_name", "latitude", "longitude", "save_diet"}
      [] name = "rationsmart.diets.schedule.get" -> {"device_id", "cow_id"}
      [] name = "rationsmart.diets.history.list" -> {"device_id", "cow_id"}
      [] name = "rationsmart.diets.follow" -> {"device_id", "diet_id"}
      [] name = "rationsmart.diets.unfollow" -> {"device_id", "diet_id"}
      [] OTHER -> {"device_id"}

ArgumentBags(name) == {Bag(f) : f \in BagsOver(KeysRead(name))} \cup {NotADict}

UnknownNames == {"rationsmart.unknown", "", "Get_Countries"}

RequestedNames == ToolNames(ToolTable) \cup DOMAIN AliasTable \cup UnknownNames

-----------------------------------------------------------------------------
(* The backend: what each client operation may reply *)

\* str(e) of a failed backend operation (httpx.HTTPStatusError)
BackendErrors ==
    {"Client error '404 Not Found' for url",
     "Server error '500 Internal Server Error' for url"}

Country(id, nm, code, active) ==
    [id |-> id, name |-> nm, country_code |-> code, is_active |-> active,
     currency |-> "VND"]

BackendCountryLists ==
    { <<>>,
      << Country("c1", "Laos", "LAO", FALSE) >>,
      << Country("c1", "Laos", "LAO", TRUE) >>,
      << Country("c1", "Laos", "LAO", TRUE), Country("c2", "Viet Nam", "VNM", FALSE) >>,
      << Country("c1", None, None, FALSE), Country("c2", "Laos", "LAO", FALSE) >> }

CowFull ==
    [name |-> "Ganga", id |-> "cow1", breed |-> "Gir", body_weight |-> "400",
     lactating |-> TRUE, milk_production |-> "10", target_milk_yield |-> None,
     days_in_milk |-> "100", parity |-> "2", days_of_pregnancy |-> "0"]

\* a cow record without the "name" key
CowNoName == [CowFull EXCEPT !.name = Absent]

Feed(feed_id, fd_name) == [feed_id |-> feed_id, id |-> None, fd_name |-> fd_name, name |-> Absent]

FeedLists == { <<>>, << Feed("f1", "Maize") >> }

\* quantities in grams, costs in hundredths
Optimizations ==
    { [least_cost_diet |->
          << [feed_id |-> "f1", feed_name |-> "Corn", quantity_g |-> 10000],
             [feed_id |-> "f2", feed_name |-> "Bran", quantity_g |-> 1000] >>,
       total_diet_cost |-> 15050],
      [least_cost_diet |->
          << [feed_id |-> "f1", feed_name |-> "Corn", quantity_g |-> 60] >>,
       total_diet_cost |-> 0],
      [least_cost_diet |-> <<>>, total_diet_cost |-> 15050] }

Summary(entries) == [morning |-> entries, evening |-> entries]

ActiveDiets ==
    { [diet_summary |-> Summary(<< [english_name |-> "Maize", name |-> "Maize",
                                    quantity_g |-> 5000] >>),
       total_cost_per_day |-> 15050, currency |-> "INR"],
      [diet_summary |-> Summary(<<>>), total_cost_per_day |-> 0, currency |-> Absent] }

Histories ==
    { [diets |-> <<>>],
      [diets |-> << [name |-> "Diet for Ganga", id |-> "diet7",
                     is_active |-> TRUE, total_cost_per_day |-> 15050,
                     currency |-> "INR"] >>] }

OkReplies(op) ==
    CASE op[1] = "get_countries" -> BackendCountryLists
      [] op[1] = "get_breeds" ->
            { [breeds |-> <<>>], [breeds |-> << [name |-> "Gir"] >>] }
      [] op[1] = "create_cow" -> {CowFull, CowNoName}
      [] op[1] = "list_cows" ->
            { [cow_profiles |-> <<>>], [cow_profiles |-> <<CowFull>>] }
      [] op[1] = "get_cow" -> {CowFull, CowNoName}
      [] op[1] = "update_cow" -> {CowFull}
      [] op[1] = "delete_cow" -> { [message |-> "Cow deactivated."], [message |-> Absent] }
      [] op[1] = "get_feeds" -> FeedLists
      [] op[1] = "post_diet_recommendation" -> Optimizations
      [] op[1] = "save_diet" -> { [id |-> "diet7"], [id |-> None] }
      [] op[1] = "get_active_diet" -> ActiveDiets
      [] op[1] = "get_diet_history" -> Histories
      [] op[1] = "follow_diet" -> { [name |-> "Diet for Ganga"] }
      [] op[1] = "unfollow_diet" -> { [name |-> "Diet for Ganga"] }

-----------------------------------------------------------------------------
(* Number formatting, the diet summary and its rendering *)

\* f"{cost:.2f}" of a cost in hundredths
Fmt2(c) ==
    ToString(c \div 100) \o "." \o (IF c % 100 < 10 THEN "0" ELSE "")
        \o ToString(c % 100)

\* The quantities below 3 kg that lie midway between two tenths of a kg and
\* that round() and the .1f format round upwards, as the binary value of the
\* float decides: <<g, 200>> for half of g grams, <<g, 100>> for g grams.
\* The other midway quantities below 3 kg are rounded downwards.
TiesUp ==
    {<<g, 200>> : g \in {100, 900, 1100, 1300, 1500, 2100, 2700}}
    \cup {<<g, 100>> : g \in {50, 450, 550, 650, 750, 1050, 1350, 1550, 1750,
                              1850, 2350, 2450, 2750, 2850, 2950}}

\* the number of tenths nearest to n/d
RoundDiv(n, d) ==
    LET q == n \div d
        r == n % d
    IN  IF 2 * r > d \/ (2 * r = d /\ <<n, d>> \in TiesUp) THEN q + 1 ELSE q

\* f"{qty:.1f}" of a quantity in grams
Fmt1Kg(g) ==
    LET t == RoundDiv(g, 100)
    IN  ToString(t \div 10) \o "." \o ToString(t % 10)

\* Mutant of HalfRounded: the daily quantity is not halved.
HalfRounded_Whole(g) == 100 * RoundDiv(g, 100)

\* round(qty / 2, 1), in grams
HalfRounded(g) == 100 * RoundDiv(g, 200)

\* f.get("feed_id") or f.get("id")
FeedKey(f) == IF ~Falsy(f.feed_id) THEN f.feed_id ELSE f.id

\* f.get("fd_name") or f.get("name", "Unknown")
FeedEnglishName(f) ==
    IF ~Falsy(f.fd_name) THEN f.fd_name
    ELSE IF f.name = Absent THEN "Unknown" ELSE f.name

\* A dict is the sequence of its <<key, value>> pairs in insertion order,
\* with distinct keys.
DictHas(d, k) == \E i \in 1..Len(d) : d[i][1] = k

DictGet(d, k) == d[CHOOSE i \in 1..Len(d) : d[i][1] = k][2]

\* d[k] = v: a key already there keeps its place
DictSet(d, k, v) ==
    IF DictHas(d, k)
    THEN [i \in 1..Len(d) |-> IF d[i][1] = k THEN <<k, v>> ELSE d[i]]
    ELSE Append(d, <<k, v>>)

RECURSIVE FeedNamesFrom(_, _)
FeedNamesFrom(feeds, d) ==
    IF feeds = <<>> THEN d
    ELSE FeedNamesFrom(Tail(feeds),
            IF Falsy(FeedKey(Head(feeds))) THEN d
            ELSE DictSet(d, FeedKey(Head(feeds)), FeedEnglishName(Head(feeds))))

\* feed_names_lookup of generate_diet_for_cow, each value reduced to its
\* "english_name": a later feed overwrites an earlier one with the same id
FeedNamesLookup(feeds) == FeedNamesFrom(feeds, <<>>)

\* One entry of the morning and evening lists; "local_name" and "fd_type"
\* are passed through and left out.  A line item without
\* "quantity_kg_per_day" has quantity_g 0, a result without
\* "least_cost_diet" has the empty list.
_extract_diet_summary(result, feed_names_lookup) ==
    LET item(feed) ==
            LET embedded == IF feed.feed_name = Absent THEN "Unknown"
                            ELSE feed.feed_name
                english_name ==
                    IF ~Falsy(feed.feed_id) /\ DictHas(feed_names_lookup, feed.feed_id)
                    THEN (IF ~Falsy(DictGet(feed_names_lookup, feed.feed_id))
                          THEN DictGet(feed_names_lookup, feed.feed_id) ELSE embedded)
                    ELSE embedded
            IN  [name |-> english_name, english_name |-> english_name,
                 quantity_g |-> HalfRounded(feed.quantity_g)]
        entries == [i \in 1..Len(result.least_cost_diet) |->
                       item(result.least_cost_diet[i])]
    IN  [morning |-> entries, evening |-> entries]

\* Mutant of FeedLine: every positive quantity is shown in kg.
FeedLine_KgOnly(feed) ==
    LET name == IF ~Falsy(feed.english_name) THEN feed.english_name
                ELSE IF feed.name = Absent THEN "Unknown" ELSE feed.name
        qty == feed.quantity_g
    IN  IF qty > 0 THEN << "  - " \o name \o ": " \o Fmt1Kg(qty) \o " kg" >>
        ELSE <<>>

\* the lines of one feed of _format_diet_schedule
FeedLine(feed) ==
    LET name == IF ~Falsy(feed.english_name) THEN feed.english_name
                ELSE IF feed.name = Absent THEN "Unknown" ELSE feed.name
        qty == feed.quantity_g
    IN  IF qty >= 1000 THEN << "  - " \o name \o ": " \o Fmt1Kg(qty) \o " kg" >>
        ELSE IF qty > 0 THEN << "  - " \o name \o ": " \o ToString(qty) \o " grams" >>
        ELSE <<>>

RECURSIVE FeedLines(_)
FeedLines(feeds) ==
    IF feeds = <<>> THEN <<>> ELSE FeedLine(Head(feeds)) \o FeedLines(Tail(feeds))

PeriodLines(title, feeds) ==
    IF feeds = <<>> THEN <<>>
    ELSE << title \o " Feeding:" >> \o FeedLines(feeds) \o << "" >>

\* a period missing from diet_summary is an empty list
_format_diet_schedule(diet_summary) ==
    LET lines == PeriodLines("Morning", diet_summary.morning)
                 \o PeriodLines("Evening", diet_summary.evening)
        text == Strip(Join("\n", lines))
    IN  IF text = "" THEN "No schedule available" ELSE text

\* json.dumps of a string or None
JsonStr(v) == IF v = None THEN "null" ELSE "\"" \o v \o "\""

-----------------------------------------------------------------------------
(* The handlers of call_tool.  A handler is resumed with the replies the   *)
(* backend has given so far (resps) and says what it does next: issue one  *)
(* backend operation, return a text, or raise.                             *)

NoOp == <<"none">>

Call(op) == [kind |-> "call", op |-> op, text |-> ""]
Return(text) == [kind |-> "return", op |-> NoOp, text |-> text]
Raise(message) == [kind |-> "raise", op |-> NoOp, text |-> message]

\* str(KeyError(k))
KeyError(k) == "'" \o k \o "'"

\* The coroutine methods class RationSmartClient defines.
ClientMethods ==
    {"close", "get_countries", "get_breeds", "create_cow", "list_cows",
     "get_cow", "update_cow", "delete_cow", "get_feeds",
     "generate_diet_for_cow", "save_diet", "get_diet_history",
     "get_active_diet", "follow_diet", "unfollow_diet"}

\* str(e) of the AttributeError of client.<method> for a method the class
\* does not define
AttributeError(method) ==
    "'RationSmartClient' object has no attribute '" \o method \o "'"

\* await client.resolve_location(latitude, longitude): the attribute is
\* looked up first, and RationSmartClient defines no such method.
ResolveLocation(latitude, longitude) ==
    IF "resolve_location" \in ClientMethods
    THEN Call(<<"resolve_location", latitude, longitude>>)
    ELSE Raise(AttributeError("resolve_location"))

\* str(v) inside an f-string
PyStr(v) == IF v = None THEN "None" ELSE v

H_countries_list(arguments, resps) ==
    IF Len(resps) = 0 THEN Call(<<"get_countries">>)
    ELSE LET cs == resps[1].val
             line(c) == "- " \o PyStr(c.name) \o " (ID: " \o c.id \o ", Currency: "
                        \o c.currency \o ")"
         IN  IF \E i \in 1..Len(cs) : cs[i].name = Absent
             THEN Raise(KeyError("name"))
             ELSE Return(Join("\n", <<"Available countries:\n">>
                                     \o [i \in 1..Len(cs) |-> line(cs[i])]))

H_breeds_list(arguments, resps) ==
    LET country_id == Get(arguments, "country_id")
    IN  IF Falsy(country_id) THEN Return("Error: country_id is required")
        ELSE IF Len(resps) = 0 THEN Call(<<"get_breeds", country_id>>)
        ELSE LET breeds == resps[1].val.breeds
             IN  IF breeds = <<>> THEN Return("No breeds found.")
                 ELSE Return(Join("\n", <<"Available breeds:\n">>
                        \o [i \in 1..Len(breeds) |-> "- " \o breeds[i].name]))

JsonLocation(r) ==
    "{\"country_code\": " \o JsonStr(r.country_code)
        \o ", \"country_name\": " \o JsonStr(r.country_name) \o "}"

H_location_resolve(arguments, resps) ==
    LET latitude == Get(arguments, "latitude")
        longitude == Get(arguments, "longitude")
    IN  IF latitude = None \/ longitude = None
        THEN Return("Error: latitude and longitude are required")
        ELSE IF Len(resps) = 0
        THEN ResolveLocation(latitude, longitude)
        ELSE Return(JsonLocation(resps[1].val))

H_countries_resolve(arguments, resps) ==
    LET code0 == Get(arguments, "country_code")
        name0 == Get(arguments, "country_name")
        latitude == Get(arguments, "latitude")
        longitude == Get(arguments, "longitude")
        geocode == Falsy(code0) /\ Falsy(name0)
        k == IF geocode THEN 1 ELSE 0
        code == IF geocode THEN resps[1].val.country_code ELSE code0
        cname == IF geocode THEN resps[1].val.country_name ELSE name0
    IN  IF geocode /\ (latitude = None \/ longitude = None)
        THEN Return("Error: provide country_code/country_name or latitude/longitude")
        ELSE IF geocode /\ Len(resps) = 0
        THEN ResolveLocation(latitude, longitude)
        ELSE IF Len(resps) = k THEN Call(<<"get_countries">>)
        ELSE LET country_id == _resolve_country_id(resps[k + 1].val, code, cname)
             IN  IF Falsy(country_id)
                 THEN Return("Error: unable to resolve country_id")
                 ELSE Return("{\"country_id\": " \o JsonStr(country_id)
                             \o ", \"country_code\": " \o JsonStr(code)
                             \o ", \"country_name\": " \o JsonStr(cname) \o "}")

\* Mutant of H_cows_create: only device_id is checked.
H_cows_create_NameUnchecked(arguments, resps) ==
    LET device_id == Get(arguments, "device_id")
        cow_name == Get(arguments, "name")
    IN  IF Falsy(device_id)
        THEN Return("Error: device_id and name are required")
        ELSE IF Len(resps) = 0 THEN Call(<<"create_cow", device_id, cow_name>>)
        ELSE Return("Created cow profile")

H_cows_create(arguments, resps) ==
    LET device_id == Get(arguments, "device_id")
        cow_name == Get(arguments, "name")
    IN  IF Falsy(device_id) \/ Falsy(cow_name)
        THEN Return("Error: device_id and name are required")
        ELSE IF Len(resps) = 0 THEN Call(<<"create_cow", device_id, cow_name>>)
        ELSE LET result == resps[1].val
             IN  IF result.name = Absent THEN Raise(KeyError("name"))
                 ELSE Return("Created cow profile:\n"
                        \o "- Name: " \o result.name \o "\n"
                        \o "- ID: " \o result.id \o "\n"
                        \o "- Breed: " \o result.breed \o "\n"
                        \o "- Weight: " \o result.body_weight \o " kg\n"
                        \o "- Milk: " \o result.milk_production \o " L/day")

H_cows_list(arguments, resps) ==
    LET device_id == Get(arguments, "device_id")
    IN  IF Falsy(device_id) THEN Return("Error: device_id is required")
        ELSE IF Len(resps) = 0 THEN Call(<<"list_cows", device_id>>)
        ELSE LET cows == resps[1].val.cow_profiles
                 line(cow) ==
                    "- " \o cow.name \o " (ID: " \o cow.id \o ")\n"
                    \o "  Breed: " \o cow.breed \o " | "
                    \o (IF cow.lactating THEN "Lactating" ELSE "Dry") \o " | Milk: "
                    \o (IF cow.lactating THEN cow.milk_production \o " L/day" ELSE "N/A")
             IN  IF cows = <<>> THEN Return("No cows found.")
                 ELSE IF \E i \in 1..Len(cows) : cows[i].name = Absent
                 THEN Raise(KeyError("name"))
                 ELSE Return(Join("\n",
                        <<"Found " \o ToString(Len(cows)) \o " cow(s):\n">>
                        \o [i \in 1..Len(cows) |-> line(cows[i])]))

H_cows_get(arguments, resps) ==
    LET device_id == Get(arguments, "device_id")
        cow_id == Get(arguments, "cow_id")
    IN  IF Falsy(device_id) \/ Falsy(cow_id)
        THEN Return("Error: device_id and cow_id are required")
        ELSE IF Len(resps) = 0 THEN Call(<<"get_cow", cow_id, device_id>>)
        ELSE LET cow == resps[1].val
                 target == IF ~Falsy(cow.target_milk_yield)
                           THEN cow.target_milk_yield \o " L/day" ELSE "Not set"
             IN  IF cow.name = Absent THEN Raise(KeyError("name"))
                 ELSE Return("Cow: " \o cow.name \o "\n"
                        \o "ID: " \o cow.id \o "\n"
                        \o "Breed: " \o cow.breed \o "\n"
                        \o "Weight: " \o cow.body_weight \o " kg\n"
                        \o "Lactating: " \o (IF cow.lactating THEN "Yes" ELSE "No") \o "\n"
                        \o "Milk: " \o cow.milk_production \o " L/day\n"
                        \o "Target: " \o target \o "\n"
                        \o "Days in Milk: " \o cow.days_in_milk \o "\n"
                        \o "Parity: " \o cow.parity \o "\n"
                        \o "Pregnancy: " \o cow.days_of_pregnancy \o " days")

H_cows_update(arguments, resps) ==
    LET device_id == Get(arguments, "device_id")
        cow_id == Get(arguments, "cow_id")
        updates == {k \in ArgKeys \ {"device_id", "cow_id"} :
                        arguments.kv[k] \notin {Absent, None}}
    IN  IF Falsy(device_id) \/ Falsy(cow_id)
        THEN Return("Error: device_id and cow_id are required")
        ELSE IF updates = {} THEN Return("No updates provided.")
        ELSE IF Len(resps) = 0 THEN Call(<<"update_cow", cow_id, device_id>>)
        ELSE IF resps[1].val.name = Absent THEN Raise(KeyError("name"))
        ELSE Return("Updated " \o resps[1].val.name \o " successfully.")

H_cows_delete(arguments, resps) ==
    LET device_id == Get(arguments, "device_id")
        cow_id == Get(arguments, "cow_id")
    IN  IF Falsy(device_id) \/ Falsy(cow_id)
        THEN Return("Error: device_id and cow_id are required")
        ELSE IF Len(resps) = 0
        THEN Call(<<"delete_cow", cow_id, device_id,
                    GetOr(arguments, "permanent", False)>>)
        ELSE IF resps[1].val.message = Absent THEN Return("Cow deleted.")
        ELSE Return(resps[1].val.message)

\* Mutant of GenerateText: the saved lines are written without looking at
\* the id.
GenerateText_IdUnchecked(cow, result, diet_id) ==
    LET cow_name == IF cow.name = Absent THEN "the cow" ELSE cow.name
        cost == result.total_cost_per_day
    IN  Join("\n",
            << "Diet for " \o cow_name \o ":\n",
               _format_diet_schedule(result.diet_summary) >>
            \o (IF cost # 0
                THEN << "\nDaily Cost: " \o result.currency \o " " \o Fmt2(cost) >>
                ELSE <<>>)
            \o << "\nDiet saved (ID: " \o diet_id \o ")",
                  "Use 'rationsmart.diets.follow' to start following this diet." >>)

\* The text diets.generate returns: cow is the reply of the handler's own
\* get_cow, result the reply of generate_diet_for_cow, diet_id the saved id.
GenerateText(cow, result, diet_id) ==
    LET cow_name == IF cow.name = Absent THEN "the cow" ELSE cow.name
        cost == result.total_cost_per_day
    IN  Join("\n",
            << "Diet for " \o cow_name \o ":\n",
               _format_diet_schedule(result.diet_summary) >>
            \o (IF cost # 0
                THEN << "\nDaily Cost: " \o result.currency \o " " \o Fmt2(cost) >>
                ELSE <<>>)
            \o (IF ~Falsy(diet_id)
                THEN << "\nDiet saved (ID: " \o diet_id \o ")",
                        "Use 'rationsmart.diets.follow' to start following this diet." >>
                ELSE <<>>))

\* What generate_diet_for_cow returns: the optimization reply with
\* diet_summary, total_cost_per_day and currency added.
GeneratedDiet(optimized, feeds) ==
    [least_cost_diet |-> optimized.least_cost_diet,
     total_diet_cost |-> optimized.total_diet_cost,
     diet_summary |-> _extract_diet_summary(optimized, FeedNamesLookup(feeds)),
     total_cost_per_day |-> optimized.total_diet_cost,
     currency |-> "INR"]

H_diets_generate(arguments, resps) ==
    LET device_id == Get(arguments, "device_id")
        cow_id == Get(arguments, "cow_id")
        country_id0 == Get(arguments, "country_id")
        code0 == Get(arguments, "country_code")
        name0 == Get(arguments, "country_name")
        latitude == Get(arguments, "latitude")
        longitude == Get(arguments, "longitude")
        n == Len(resps)
        geocode == /\ Falsy(country_id0) /\ Falsy(code0) /\ Falsy(name0)
                   /\ latitude # None /\ longitude # None
        k1 == IF geocode THEN 1 ELSE 0
        code == IF geocode THEN resps[1].val.country_code ELSE code0
        cname == IF geocode THEN resps[1].val.country_name ELSE name0
        lookup == Falsy(country_id0) /\ (~Falsy(code) \/ ~Falsy(cname))
        k2 == IF lookup THEN k1 + 1 ELSE k1
        country_id == IF ~Falsy(country_id0) THEN country_id0
                      ELSE IF lookup
                      THEN _resolve_country_id(resps[k2].val, code, cname)
                      ELSE None
        feeds == resps[k2 + 3].val
        result == GeneratedDiet(resps[k2 + 4].val, feeds)
    IN  IF Falsy(device_id) \/ Falsy(cow_id)
        THEN Return("Error: device_id and cow_id are required")
        ELSE IF geocode /\ n = 0
        THEN ResolveLocation(latitude, longitude)
        ELSE IF lookup /\ n = k1 THEN Call(<<"get_countries">>)
        ELSE IF Falsy(country_id)
        THEN Return("Error: country_id or country_code/latitude+longitude is required")
        ELSE IF n = k2 THEN Call(<<"get_cow", cow_id, device_id>>)
        ELSE IF n = k2 + 1 THEN Call(<<"get_cow", cow_id, device_id>>)
        ELSE IF n = k2 + 2 THEN Call(<<"get_feeds", country_id>>)
        ELSE IF n = k2 + 3
        THEN (IF \A i \in 1..Len(feeds) : Falsy(FeedKey(feeds[i]))
              THEN Raise("No feeds available for this country")
              ELSE Call(<<"post_diet_recommendation", device_id>>))
        ELSE IF n = k2 + 4
        THEN (IF ~Falsy(GetOr(arguments, "save_diet", True))
              THEN Call(<<"save_diet", device_id, cow_id>>)
              ELSE Return(GenerateText(resps[k2 + 1].val, result, None)))
        ELSE Return(GenerateText(resps[k2 + 1].val, result, resps[k2 + 5].val.id))

NoActiveDiet ==
    "No active diet. Generate a diet and use 'rationsmart.diets.follow' to start following it."

\* "404" in str(e) or "not found" in str(e).lower()
IsNotFound(message) ==
    Contains(message, "404") \/ Contains(Lower(message), "not found")

\* the try block of diets.schedule.get
ScheduleBody(arguments, resps) ==
    LET device_id == Get(arguments, "device_id")
        cow_id == Get(arguments, "cow_id")
    IN  IF Len(resps) = 0 THEN Call(<<"get_active_diet", cow_id, device_id>>)
        ELSE IF Len(resps) = 1 THEN Call(<<"get_cow", cow_id, device_id>>)
        ELSE LET diet == resps[1].val
                 cow == resps[2].val
                 cost == diet.total_cost_per_day
                 currency == IF diet.currency = Absent THEN "INR" ELSE diet.currency
                 cost_line == IF cost # 0
                              THEN "\nDaily Cost: " \o currency \o " " \o Fmt2(cost)
                              ELSE ""
             IN  Return("Schedule for "
                        \o (IF cow.name = Absent THEN "cow" ELSE cow.name)
                        \o ":\n\n" \o _format_diet_schedule(diet.diet_summary)
                        \o cost_line)

\* Mutant of H_diets_schedule_get: only the active-diet lookup is inside
\* the inner try.
H_diets_schedule_get_LookupOnly(arguments, resps, failure) ==
    IF Falsy(Get(arguments, "device_id")) \/ Falsy(Get(arguments, "cow_id"))
    THEN Return("Error: device_id and cow_id are required")
    ELSE LET step == IF failure # None THEN Raise(failure)
                     ELSE ScheduleBody(arguments, resps)
         IN  IF step.kind = "raise" /\ IsNotFound(step.text) /\ Len(resps) = 1
             THEN Return(NoActiveDiet)
             ELSE step

H_diets_schedule_get(arguments, resps, failure) ==
    IF Falsy(Get(arguments, "device_id")) \/ Falsy(Get(arguments, "cow_id"))
    THEN Return("Error: device_id and cow_id are required")
    ELSE LET step == IF failure # None THEN Raise(failure)
                     ELSE ScheduleBody(arguments, resps)
         IN  IF step.kind = "raise" /\ IsNotFound(step.text)
             THEN Return(NoActiveDiet)
             ELSE step

H_diets_history_list(arguments, resps) ==
    LET device_id == Get(arguments, "device_id")
    IN  IF Falsy(device_id) THEN Return("Error: device_id is required")
        ELSE IF Len(resps) = 0
        THEN Call(<<"get_diet_history", device_id, Get(arguments, "cow_id")>>)
        ELSE LET diets == resps[1].val.diets
                 line(d) ==
                    "- " \o d.name \o (IF d.is_active THEN " (ACTIVE)" ELSE "")
                    \o "\n  ID: " \o d.id
                    \o (IF d.total_cost_per_day # 0
                        THEN ", " \o d.currency \o " " \o Fmt2(d.total_cost_per_day)
                             \o "/day"
                        ELSE "")
             IN  IF diets = <<>> THEN Return("No diet history.")
                 ELSE Return(Join("\n",
                        <<"Found " \o ToString(Len(diets)) \o " diet(s):\n">>
                        \o [i \in 1..Len(diets) |-> line(diets[i])]))

H_diets_follow(arguments, resps) ==
    LET device_id == Get(arguments, "device_id")
        diet_id == Get(arguments, "diet_id")
    IN  IF Falsy(device_id) \/ Falsy(diet_id)
        THEN Return("Error: device_id and diet_id are required")
        ELSE IF Len(resps) = 0 THEN Call(<<"follow_diet", diet_id, device_id>>)
        ELSE Return("Now following: " \o resps[1].val.name \o "\n"
                    \o "Follow-up reminders are now enabled.")

H_diets_unfollow(arguments, resps) ==
    LET device_id == Get(arguments, "device_id")
        diet_id == Get(arguments, "diet_id")
    IN  IF Falsy(device_id) \/ Falsy(diet_id)
        THEN Return("Error: device_id and diet_id are required")
        ELSE IF Len(resps) = 0 THEN Call(<<"unfollow_diet", diet_id, device_id>>)
        ELSE Return("Stopped following the diet.")

\* str(e) of arguments.get on a value that is not a dict
NotADictError == "'list' object has no attribute 'get'"

\* The elif branches of call_tool that read the arguments.
Dispatch(name, arguments, resps) ==
    CASE name = "rationsmart.breeds.list" -> H_breeds_list(arguments, resps)
      [] name = "rationsmart.location.resolve" -> H_location_resolve(arguments, resps)
      [] name = "rationsmart.countries.resolve" -> H_countries_resolve(arguments, resps)
      [] name = "rationsmart.cows.create" -> H_cows_create(arguments, resps)
      [] name = "rationsmart.cows.list" -> H_cows_list(arguments, resps)
      [] name = "rationsmart.cows.get" -> H_cows_get(arguments, resps)
      [] name = "rationsmart.cows.update" -> H_cows_update(arguments, resps)
      [] name = "rationsmart.cows.delete" -> H_cows_delete(arguments, resps)
      [] name = "rationsmart.diets.generate" -> H_diets_generate(arguments, resps)
      [] name = "rationsmart.diets.schedule.get" ->
            H_diets_schedule_get(arguments, resps, None)
      [] name = "rationsmart.diets.history.list" -> H_diets_history_list(arguments, resps)
      [] name = "rationsmart.diets.follow" -> H_diets_follow(arguments, resps)
      [] name = "rationsmart.diets.unfollow" -> H_diets_unfollow(arguments, resps)

\* Mutant of Branch: the arguments are read before the name is looked at.
Branch_ArgsFirst(name, arguments, resps) ==
    IF ~arguments.is_dict THEN Raise(NotADictError)
    ELSE IF name = "rationsmart.countries.list" THEN H_countries_list(arguments, resps)
    ELSE IF name \notin ToolNames(ToolTable) THEN Return("Unknown tool: " \o name)
    ELSE Dispatch(name, arguments, resps)

\* The if/elif chain of call_tool for the resolved name: the handler's next
\* step after the replies resps, none of which is a failure.  Only the
\* branches of the registered tools other than countries.list read the
\* arguments.
Branch(name, arguments, resps) ==
    IF name = "rationsmart.countries.list" THEN H_countries_list(arguments, resps)
    ELSE IF name \notin ToolNames(ToolTable) THEN Return("Unknown tool: " \o name)
    ELSE IF ~arguments.is_dict THEN Raise(NotADictError)
    ELSE Dispatch(name, arguments, resps)

\* Mutant of Handler: a failed operation is issued once more.
Handler_Retry(name, arguments, resps) ==
    LET n == Len(resps)
    IN  IF n = 1 /\ ~resps[n].ok
        THEN Branch(name, arguments, <<>>)
        ELSE IF n > 0 /\ ~resps[n].ok THEN Raise(resps[n].err)
        ELSE Branch(name, arguments, resps)

\* The body of call_tool's try block.  A backend operation that fails
\* raises at its await; only diets.schedule.get has a try of its own.
Handler(name, arguments, resps) ==
    LET n == Len(resps)
    IN  IF n > 0 /\ ~resps[n].ok
        THEN (IF name = "rationsmart.diets.schedule.get" /\ arguments.is_dict
              THEN H_diets_schedule_get(arguments, resps, resps[n].err)
              ELSE Raise(resps[n].err))
        ELSE Branch(name, arguments, resps)

-----------------------------------------------------------------------------
(* call_tool and list_tools *)

InitClient ==
    /\ _client = None
    /\ constructed = 0

InitCall ==
    /\ tool_name = None
    /\ call_name = None
    /\ call_arguments = Bag(<<>>)
    /\ ops = <<>>
    /\ replies = <<>>
    /\ call_result = None
    /\ propagated = FALSE
    /\ pc = "idle"
    /\ listing = <<>>

ResolveIdle ==
    /\ countries = <<>>
    /\ country_code = None
    /\ country_name = None
    /\ mapped_code = None
    /\ match_id = None
    /\ rpc = "off"

\* no request to /mcp
NoRequest == [parses |-> FALSE, is_dict |-> FALSE, none |-> TRUE]
NoResponse == [status |-> 0]
NoExchange == [none |-> TRUE]
NoSummary == [none |-> TRUE]

SummaryOff ==
    /\ diet_result = [none |-> TRUE]
    /\ diet_lookup = <<>>
    /\ diet_out = NoSummary
    /\ diet_text = None
    /\ dpc = "off"

ServeOff ==
    /\ tasks = <<>>
    /\ closing = {}
    /\ closed = {}
    /\ closers = <<>>
    /\ closes = 0
    /\ used = {}
    /\ server = "off"

McpOff ==
    /\ request = NoRequest
    /\ accept = None
    /\ response = NoResponse
    /\ mpc = "off"
    /\ previous = NoExchange

Init ==
    /\ InitRegistry
    /\ InitClient
    /\ InitCall
    /\ ResolveIdle
    /\ McpOff
    /\ SummaryOff
    /\ ServeOff

\* Mutant of GetClient: a client is constructed on every call.
GetClient_PerCall ==
    /\ _client' = "RationSmartClient-" \o ToString(constructed + 1)
    /\ constructed' = constructed + 1

\* get_client()
GetClient ==
    IF _client = None
    THEN /\ _client' = "RationSmartClient-" \o ToString(constructed + 1)
         /\ constructed' = constructed + 1
    ELSE UNCHANGED clientVars

\* list_tools()
ListTools ==
    /\ pc = "idle"
    /\ listing' = TOOLS
    /\ pc' = "done"
    /\ UNCHANGED <<tool_name, call_name, call_arguments, ops, replies,
                   call_result, propagated, registryVars, clientVars, resolveVars,
                   summaryVars, serveVars, mcpVars>>

\* a JSON array given as tool name
NameList == "<['get_countries']>"

\* hash(n) raises TypeError
Unhashable(n) == n = NameList

\* call_tool(n, a) up to its try block: get_client(), then
\* TOOL_ALIASES.get(n, n), which raises for a name that cannot be hashed.
CallToolEnter(n, a) ==
    /\ pc = "idle"
    /\ GetClient
    /\ tool_name' = n
    /\ call_arguments' = a
    /\ IF Unhashable(n)
       THEN /\ call_name' = None
            /\ propagated' = TRUE
            /\ pc' = "done"
       ELSE /\ call_name' = AliasGet(TOOL_ALIASES, n)
            /\ propagated' = FALSE
            /\ pc' = "running"
    /\ UNCHANGED <<ops, replies, call_result, listing, registryVars, resolveVars,
                   summaryVars, serveVars>>

\* call_tool(n, a) called through the MCP server object
CallTool(n, a) ==
    /\ CallToolEnter(n, a)
    /\ UNCHANGED mcpVars

\* The caller has taken what was returned; nothing of the invocation is
\* kept, only the registry and the client handle.
Discard ==
    /\ pc = "done"
    /\ tool_name' = None
    /\ call_name' = None
    /\ call_arguments' = Bag(<<>>)
    /\ ops' = <<>>
    /\ replies' = <<>>
    /\ call_result' = None
    /\ propagated' = FALSE
    /\ listing' = <<>>
    /\ pc' = "idle"
    /\ UNCHANGED <<registryVars, clientVars, resolveVars, summaryVars, serveVars, mcpVars>>

Step == Handler(call_name, call_arguments, replies)

OkReply(v) == [ok |-> TRUE, val |-> v, err |-> None]
Failure(e) == [ok |-> FALSE, val |-> None, err |-> e]

\* the handler awaits a client operation and the backend answers
BackendReturns ==
    /\ pc = "running"
    /\ Step.kind = "call"
    /\ \E v \in OkReplies(Step.op) :
            replies' = Append(replies, OkReply(v))
    /\ ops' = Append(ops, Step.op)
    /\ UNCHANGED <<tool_name, call_name, call_arguments, call_result, propagated, pc, listing,
                   registryVars, clientVars, resolveVars, summaryVars, serveVars, mcpVars>>

\* the handler awaits a client operation and raise_for_status (or the
\* transport) raises
BackendFails ==
    /\ pc = "running"
    /\ Step.kind = "call"
    /\ \E e \in BackendErrors :
            replies' = Append(replies, Failure(e))
    /\ ops' = Append(ops, Step.op)
    /\ UNCHANGED <<tool_name, call_name, call_arguments, call_result, propagated, pc, listing,
                   registryVars, clientVars, resolveVars, summaryVars, serveVars, mcpVars>>

\* a return statement of the try block
HandlerReturns ==
    /\ pc = "running"
    /\ Step.kind = "return"
    /\ call_result' = Step.text
    /\ pc' = "done"
    /\ UNCHANGED <<tool_name, call_name, call_arguments, ops, replies, propagated, listing,
                   registryVars, clientVars, resolveVars, summaryVars, serveVars, mcpVars>>

\* Mutant of ExceptException: only the backend's HTTP errors are caught.
ExceptException_HttpOnly(message) ==
    IF message \in BackendErrors
    THEN [caught |-> TRUE, text |-> "Error: " \o message]
    ELSE [caught |-> FALSE, text |-> None]

\* except Exception as e: return "Error: {e}"
ExceptException(message) == [caught |-> TRUE, text |-> "Error: " \o message]

\* an exception leaves the try block
HandlerFaults ==
    /\ pc = "running"
    /\ Step.kind = "raise"
    /\ call_result' = ExceptException(Step.text).text
    /\ propagated' = ~ExceptException(Step.text).caught
    /\ pc' = "done"
    /\ UNCHANGED <<tool_name, call_name, call_arguments, ops, replies, listing,
                   registryVars, clientVars, resolveVars, summaryVars, serveVars, mcpVars>>

vars == <<registryVars, resolveVars, clientVars, callVars, mcpVars, summaryVars,
         serveVars>>

Next ==
    \/ ListTools
    \/ \E n \in RequestedNames :
         \E a \in ArgumentBags(AliasGet(AliasTable, n)) : CallTool(n, a)
    \/ BackendReturns
    \/ BackendFails
    \/ HandlerReturns
    \/ HandlerFaults
    \/ Discard

Spec == Init /\ [][Next]_vars

-----------------------------------------------------------------------------
(* The /mcp endpoint.  A request body is what request.json() gives: it     *)
(* fails to parse, or is a JSON value; an object has the members jsonrpc,  *)
(* id, method and params, each of which may be missing (Absent).           *)

\* "arguments" missing from params
NoArguments == [is_dict |-> FALSE, absent |-> TRUE]

\* members of "params": an object with name, arguments and protocolVersion
ParamsObject(nm, args, version) ==
    [is_dict |-> TRUE, truthy |-> TRUE, name |-> nm, arguments |-> args,
     protocolVersion |-> version]

\* "params" missing, and {} as the "or {}" of mcp_endpoint supplies it
ParamsAbsent ==
    [is_dict |-> FALSE, truthy |-> FALSE, name |-> Absent, arguments |-> NoArguments,
     protocolVersion |-> Absent]
EmptyParams ==
    [is_dict |-> TRUE, truthy |-> FALSE, name |-> Absent, arguments |-> NoArguments,
     protocolVersion |-> Absent]

\* "params": [1], a JSON array
ParamsList ==
    [is_dict |-> FALSE, truthy |-> TRUE, name |-> Absent, arguments |-> NoArguments,
     protocolVersion |-> Absent]

Unparsable == [parses |-> FALSE, is_dict |-> FALSE]
BodyList == [parses |-> TRUE, is_dict |-> FALSE]
Body(jsonrpc, id, method, params) ==
    [parses |-> TRUE, is_dict |-> TRUE, jsonrpc |-> jsonrpc, id |-> id,
     method |-> method, params |-> params]

\* d.get(k) of a member that may be missing
Member(v) == IF v = Absent THEN None ELSE v

SERVER_INFO == [name |-> "RationSmart Tools", version |-> "0.1.0"]

_wants_sse(accept_header) ==
    Contains(Lower(IF accept_header = Absent THEN "" ELSE accept_header),
             "text/event-stream")

\* Mutant of _jsonrpc_response: the event stream is sent without the status
\* code.
_jsonrpc_response_SseOk(accept_header, payload, status_code) ==
    IF _wants_sse(accept_header)
    THEN [status |-> 200, media_type |-> "text/event-stream",
          before |-> "data: ", payload |-> payload, after |-> "\n\n"]
    ELSE [status |-> status_code, media_type |-> "application/json",
          before |-> "", payload |-> payload, after |-> ""]

\* The response of _jsonrpc_response: the payload as JSON, framed as one
\* server-sent event when the client accepts text/event-stream.
_jsonrpc_response(accept_header, payload, status_code) ==
    IF _wants_sse(accept_header)
    THEN [status |-> status_code, media_type |-> "text/event-stream",
          before |-> "data: ", payload |-> payload, after |-> "\n\n"]
    ELSE [status |-> status_code, media_type |-> "application/json",
          before |-> "", payload |-> payload, after |-> ""]

\* Mutant of _jsonrpc_error: the id is not carried over.
_jsonrpc_error_NoId(request_id, code, message) ==
    [jsonrpc |-> "2.0", id |-> None,
     error |-> [code |-> code, message |-> message]]

\* _jsonrpc_error with data None
_jsonrpc_error(request_id, code, message) ==
    [jsonrpc |-> "2.0", id |-> request_id,
     error |-> [code |-> code, message |-> message]]

ResultEnvelope(request_id, result) ==
    [jsonrpc |-> "2.0", id |-> request_id, result |-> result]

\* An exception leaves mcp_endpoint: nothing is returned, and the ASGI
\* server answers 500 without a JSON-RPC payload.
Unhandled(exception) == [status |-> 500, unhandled |-> exception]

\* the "tools" member of the tools/list result
ToolsListed ==
    [i \in 1..Len(TOOLS) |->
        [name |-> TOOLS[i].name,
         title |-> IF TOOLS[i].name \in DOMAIN TOOL_TITLES
                   THEN TOOL_TITLES[TOOLS[i].name] ELSE TOOLS[i].name]]

\* Mutant of IsErrorText: the prefix is compared without lower().
IsErrorText_CaseSensitive(text) ==
    SubSeq(text, 1, IF Len(text) < 6 THEN Len(text) ELSE 6) = "error:"

\* text.lower().startswith("error:"); only the first six characters decide
IsErrorText(text) ==
    Lower(SubSeq(text, 1, IF Len(text) < 6 THEN Len(text) ELSE 6)) = "error:"

\* The requests sent to /mcp.
McpProtocolTags == {"2.0", "1.0", Absent}
McpIds == {Absent, "<7>", "req-1"}
McpMethods == {Absent, "initialize", "tools/list", "tools/call", "resources/list"}
McpCalls ==
    { <<"get_countries", NoArguments>>,
      <<"create_cow", Bag(("device_id" :> "dev1") @@ ("name" :> "Ganga"))>>,
      <<"create_cow", NoArguments>>,
      <<"rationsmart.cows.create", NotADict>>,
      <<"get_diet_schedule", Bag(("device_id" :> "dev1") @@ ("cow_id" :> "cow1"))>>,
      <<"rationsmart.unknown", NotADict>>,
      <<"", NoArguments>>,
      <<Absent, NoArguments>>,
      <<NameList, NoArguments>> }
McpParams ==
    {ParamsAbsent, ParamsList, ParamsObject(Absent, NoArguments, "2025-03-26")}
    \cup {ParamsObject(c[1], c[2], Absent) : c \in McpCalls}
McpBodies ==
    {Unparsable, BodyList}
    \cup {Body(j, i, m, p) : j \in McpProtocolTags, i \in McpIds,
                             m \in McpMethods, p \in McpParams}
AcceptHeaders == {Absent, "application/json", "application/json, Text/Event-Stream"}

InitMcp ==
    /\ InitRegistry
    /\ InitClient
    /\ InitCall
    /\ ResolveIdle
    /\ request = NoRequest
    /\ accept = None
    /\ response = NoResponse
    /\ mpc = "idle"
    /\ previous = NoExchange
    /\ SummaryOff
    /\ ServeOff

\* mcp_endpoint returns a response without calling a tool
Answer(payload, status_code) ==
    /\ response' = _jsonrpc_response(accept', payload, status_code)
    /\ mpc' = "responded"
    /\ UNCHANGED <<callVars, clientVars, registryVars, resolveVars, summaryVars, serveVars>>

\* an exception leaves mcp_endpoint before any tool is called
Crash(exception) ==
    /\ response' = Unhandled(exception)
    /\ mpc' = "crashed"
    /\ UNCHANGED <<callVars, clientVars, registryVars, resolveVars, summaryVars, serveVars>>

\* mcp_endpoint from the request to its first return, or to its await of
\* call_tool
McpReceive(body, accept_header) ==
    /\ mpc = "idle"
    /\ request' = body
    /\ accept' = accept_header
    /\ previous' = previous
    /\ IF ~body.parses THEN Answer(_jsonrpc_error(None, -32700, "Parse error"), 400)
       ELSE IF ~body.is_dict
       THEN Answer(_jsonrpc_error(None, -32600, "Invalid Request"), 400)
       ELSE IF Member(body.jsonrpc) # "2.0"
       THEN Answer(_jsonrpc_error(Member(body.id), -32600, "Invalid Request"), 400)
       ELSE
       LET request_id == Member(body.id)
           method == Member(body.method)
           params == IF body.params.truthy THEN body.params ELSE EmptyParams
           tool == Member(params.name)
           arguments == IF params.arguments = NoArguments THEN Bag(<<>>)
                        ELSE params.arguments
       IN  IF method = "initialize"
           THEN (IF ~params.is_dict THEN Crash(NotADictError)
                 ELSE Answer(ResultEnvelope(request_id,
                        [protocolVersion |->
                            IF params.protocolVersion = Absent THEN "2024-11-05"
                            ELSE params.protocolVersion,
                         capabilities |-> [tools |-> [list |-> TRUE, call |-> TRUE]],
                         serverInfo |-> SERVER_INFO]), 200))
           ELSE IF method = "tools/list"
           THEN Answer(ResultEnvelope(request_id, [tools |-> ToolsListed]), 200)
           ELSE IF method = "tools/call"
           THEN (IF ~params.is_dict THEN Crash(NotADictError)
                 ELSE IF Falsy(tool)
                 THEN Answer(_jsonrpc_error(request_id, -32602, "Missing tool name"), 400)
                 ELSE /\ CallToolEnter(tool, arguments)
                      /\ response' = NoResponse
                      /\ mpc' = "dispatched")
           ELSE Answer(_jsonrpc_error(request_id, -32601, "Method not found"), 404)

\* mcp_endpoint after call_tool: the text is wrapped as the one content
\* item; an exception that left call_tool leaves mcp_endpoint too.
McpRespond ==
    /\ mpc = "dispatched"
    /\ pc = "done"
    /\ IF propagated
       THEN /\ response' = Unhandled("unhashable type: 'list'")
            /\ mpc' = "crashed"
       ELSE /\ response' = _jsonrpc_response(accept,
                ResultEnvelope(Member(request.id),
                    [content |-> << [type |-> "text", text |-> call_result] >>,
                     isError |-> IsErrorText(call_result)]), 200)
            /\ mpc' = "responded"
    /\ UNCHANGED <<request, accept, previous, callVars, clientVars, registryVars,
                   resolveVars, summaryVars, serveVars>>

\* The response has been sent; nothing of the request is kept.
McpForget ==
    /\ mpc \in {"responded", "crashed"}
    /\ previous' = previous
    /\ request' = NoRequest
    /\ accept' = None
    /\ response' = NoResponse
    /\ mpc' = "idle"
    /\ tool_name' = None
    /\ call_name' = None
    /\ call_arguments' = Bag(<<>>)
    /\ ops' = <<>>
    /\ replies' = <<>>
    /\ call_result' = None
    /\ propagated' = FALSE
    /\ listing' = <<>>
    /\ pc' = "idle"
    /\ UNCHANGED <<registryVars, clientVars, resolveVars, summaryVars, serveVars>>

NextMcp ==
    \/ \E body \in McpBodies : \E accept_header \in AcceptHeaders :
            McpReceive(body, accept_header)
    \/ BackendReturns
    \/ BackendFails
    \/ HandlerReturns
    \/ HandlerFaults
    \/ McpRespond
    \/ McpForget

SpecMcp == InitMcp /\ [][NextMcp]_vars

-----------------------------------------------------------------------------
(* One request sent to /mcp twice, with and without text/event-stream *)

\* the exchange that has just ended
Exchange ==
    [request |-> request, sse |-> _wants_sse(accept), ended |-> mpc,
     ops |-> ops, replies |-> replies, response |-> response]

\* the second request has the body of the first and the other framing
SseReceive(body, accept_header) ==
    /\ IF previous = NoExchange THEN TRUE
       ELSE /\ body = previous.request
            /\ _wants_sse(accept_header) # previous.sse
    /\ McpReceive(body, accept_header)

\* the first exchange is kept for the second, the second ends the pair
SseForget ==
    /\ mpc \in {"responded", "crashed"}
    /\ previous' = IF previous = NoExchange THEN Exchange ELSE NoExchange
    /\ request' = NoRequest
    /\ accept' = None
    /\ response' = NoResponse
    /\ mpc' = "idle"
    /\ tool_name' = None
    /\ call_name' = None
    /\ call_arguments' = Bag(<<>>)
    /\ ops' = <<>>
    /\ replies' = <<>>
    /\ call_result' = None
    /\ propagated' = FALSE
    /\ listing' = <<>>
    /\ pc' = "idle"
    /\ UNCHANGED <<registryVars, clientVars, resolveVars, summaryVars, serveVars>>

NextSse ==
    \/ \E body \in McpBodies : \E accept_header \in AcceptHeaders :
            SseReceive(body, accept_header)
    \/ BackendReturns
    \/ BackendFails
    \/ HandlerReturns
    \/ HandlerFaults
    \/ McpRespond
    \/ SseForget

SpecSse == InitMcp /\ [][NextSse]_vars

-----------------------------------------------------------------------------
(* SpecResolve: _resolve_country_id on every list and candidate *)

InitResolve ==
    /\ countries \in CountryLists
    /\ country_code \in CandidateCodes
    /\ country_name \in CandidateNames
    /\ mapped_code = None
    /\ match_id = None
    /\ rpc = "start"
    /\ InitRegistry
    /\ InitClient
    /\ InitCall
    /\ McpOff
    /\ SummaryOff
    /\ ServeOff

\* _resolve_country_id on the reply of client.get_countries()
ResolveCountry ==
    /\ rpc = "start"
    /\ mapped_code' = MappedCode(country_code)
    /\ match_id' = _resolve_country_id(countries, country_code, country_name)
    /\ rpc' = "done"
    /\ UNCHANGED <<countries, country_code, country_name, registryVars,
                   clientVars, callVars, mcpVars, summaryVars, serveVars>>

SpecResolve == InitResolve /\ [][ResolveCountry]_vars

-----------------------------------------------------------------------------
(* SpecSummary: _extract_diet_summary and _format_diet_schedule on every  *)
(* optimization result, feed names dict and stored summary                 *)

\* no quantity exceeds MaxKg kg
MaxKg == 10

\* daily quantities in grams
Quantities == {0, 50, 100, 300, 1000, 10000}

\* line items: every quantity of a catalogued feed, and every way of
\* naming a feed
LineItems ==
    {[feed_id |-> "f1", feed_name |-> "Corn", quantity_g |-> q] : q \in Quantities}
    \cup [feed_id : {"f1", "f2", None}, feed_name : {"Corn", Absent},
          quantity_g : {300}]

\* the "least_cost_diet" lists of up to MaxItems line items
MaxItems == 2
LineItemLists == UNION {[1..n -> LineItems] : n \in 0..MaxItems}

\* feed names dicts: empty, with and without a name for "f1", and the same
\* two entries in both insertion orders
FeedNameDicts ==
    { <<>>,
      << <<"f1", "Maize">> >>,
      << <<"f1", "">> >>,
      << <<"f1", "Maize">>, <<"f3", "Hay">> >>,
      << <<"f3", "Hay">>, <<"f1", "Maize">> >> }

\* entries of a summary stored by the backend
StoredEntries ==
    [english_name : {"Maize", None}, name : {"Corn", Absent},
     quantity_g : {0, 50, 300, 999, 1000, 1250, 5000}]

StoredSummaries ==
    {Summary(<<>>)}
    \cup {Summary(<<e>>) : e \in StoredEntries}
    \cup {[morning |-> <<e>>, evening |-> <<>>] : e \in StoredEntries}

InitSummary ==
    /\ \/ /\ diet_result \in {[least_cost_diet |-> l] : l \in LineItemLists}
          /\ diet_lookup \in FeedNameDicts
          /\ diet_out = NoSummary
          /\ dpc = "result"
       \/ /\ diet_result = [none |-> TRUE]
          /\ diet_lookup = <<>>
          /\ diet_out \in StoredSummaries
          /\ dpc = "summary"
    /\ diet_text = None
    /\ InitRegistry
    /\ InitClient
    /\ InitCall
    /\ ResolveIdle
    /\ McpOff
    /\ ServeOff

\* self._extract_diet_summary(result, feed_names_lookup)
ExtractDietSummary ==
    /\ dpc = "result"
    /\ diet_out' = _extract_diet_summary(diet_result, diet_lookup)
    /\ dpc' = "summary"
    /\ UNCHANGED <<diet_result, diet_lookup, diet_text, registryVars, resolveVars,
                   clientVars, callVars, mcpVars, serveVars>>

\* _format_diet_schedule(diet_summary)
FormatDietSchedule ==
    /\ dpc = "summary"
    /\ diet_text' = _format_diet_schedule(diet_out)
    /\ dpc' = "rendered"
    /\ UNCHANGED <<diet_result, diet_lookup, diet_out, registryVars,
                   resolveVars, clientVars, callVars, mcpVars, serveVars>>

NextSummary ==
    \/ ExtractDietSummary
    \/ FormatDietSchedule

SpecSummary == InitSummary /\ [][NextSummary]_vars

-----------------------------------------------------------------------------
(* SpecServe: the serving process of main().  Tool calls run as concurrent *)
(* tasks of one event loop: a task runs from one await to the next without *)
(* interruption.  A call is reduced to its use of the client handle:       *)
(* get_client() on entry, then backend operations on the handle it holds.  *)

MaxTasks == 3
MaxAwaits == 2
MaxHandles == 2

Tasks == 1..MaxTasks

NoTask == [pc |-> "idle", client |-> None, stale |-> FALSE, awaited |-> 0]

InitTasks ==
    /\ tasks = [t \in Tasks |-> NoTask]
    /\ closing = {}
    /\ closed = {}
    /\ closes = 0
    /\ used = {}
    /\ server = "serving"

InitServe ==
    /\ InitTasks
    /\ closers = <<>>
    /\ InitRegistry
    /\ InitClient
    /\ InitCall
    /\ ResolveIdle
    /\ McpOff
    /\ SummaryOff

\* call_tool up to its first await: client = get_client()
TaskEnter(t) ==
    /\ server = "serving"
    /\ tasks[t].pc = "idle"
    /\ _client # None \/ constructed < MaxHandles
    /\ GetClient
    /\ tasks' = [tasks EXCEPT ![t] =
                    [pc |-> "running", client |-> _client',
                     stale |-> _client' \in closing \cup closed, awaited |-> 0]]
    /\ UNCHANGED <<closing, closed, closers, closes, used, server, registryVars,
                   resolveVars, callVars, mcpVars, summaryVars>>

\* await client.<operation>(...): the task uses the handle it took
TaskAwait(t) ==
    /\ tasks[t].pc = "running"
    /\ tasks[t].awaited < MaxAwaits
    /\ tasks' = [tasks EXCEPT ![t].awaited = @ + 1]
    /\ used' = used \cup {tasks[t].client}
    /\ UNCHANGED <<closing, closed, closers, closes, server, registryVars,
                   resolveVars, clientVars, callVars, mcpVars, summaryVars>>

\* call_tool returns; its local client is gone
TaskReturn(t) ==
    /\ tasks[t].pc = "running"
    /\ tasks' = [tasks EXCEPT ![t] = NoTask]
    /\ UNCHANGED <<closing, closed, closers, closes, used, server, registryVars,
                   resolveVars, clientVars, callVars, mcpVars, summaryVars>>

\* uvicorn.run returns: the app has no lifespan or shutdown handler, so
\* nothing of the module is run
Shutdown ==
    /\ server = "serving"
    /\ server' = "terminated"
    /\ UNCHANGED <<tasks, closing, closed, closers, closes, used, registryVars,
                   resolveVars, clientVars, callVars, mcpVars, summaryVars>>

NextServe ==
    \/ \E t \in Tasks : TaskEnter(t)
    \/ \E t \in Tasks : TaskAwait(t)
    \/ \E t \in Tasks : TaskReturn(t)
    \/ Shutdown

SpecServe == InitServe /\ [][NextServe]_vars

-----------------------------------------------------------------------------
(* SpecClient: get_client and close_client of client.py called by          *)
(* concurrent tasks of one event loop.  close_client suspends at           *)
(* `await _client.close()` and assigns `_client = None` when it resumes;    *)
(* any task may run in between.                                            *)

MaxClosers == 2
MaxCloses == 3

Closers == 1..MaxClosers

NoCloser == [pc |-> "idle", handle |-> None]

InitClientLife ==
    /\ InitTasks
    /\ closers = [c \in Closers |-> NoCloser]
    /\ InitRegistry
    /\ InitClient
    /\ InitCall
    /\ ResolveIdle
    /\ McpOff
    /\ SummaryOff

\* close_client up to its await: `if _client is not None:` and the call of
\* _client.close(), which starts closing the handle; with no handle the
\* function returns at once
CloseBegin(c) ==
    /\ closers[c].pc = "idle"
    /\ closes < MaxCloses
    /\ closes' = closes + 1
    /\ IF _client # None
       THEN /\ closers' = [closers EXCEPT ![c] =
                              [pc |-> "closing", handle |-> _client]]
            /\ closing' = closing \cup {_client}
       ELSE UNCHANGED <<closers, closing>>
    /\ UNCHANGED <<tasks, closed, used, server, registryVars, resolveVars,
                   clientVars, callVars, mcpVars, summaryVars>>

\* close_client resumes: aclose() has finished, then `_client = None`,
\* whatever _client refers to by now
CloseEnd(c) ==
    /\ closers[c].pc = "closing"
    /\ closed' = closed \cup {closers[c].handle}
    /\ closing' = closing \ {closers[c].handle}
    /\ _client' = None
    /\ closers' = [closers EXCEPT ![c] = NoCloser]
    /\ UNCHANGED <<tasks, closes, used, server, constructed, registryVars,
                   resolveVars, callVars, mcpVars, summaryVars>>

NextClient ==
    \/ \E t \in Tasks : TaskEnter(t)
    \/ \E t \in Tasks : TaskAwait(t)
    \/ \E t \in Tasks : TaskReturn(t)
    \/ \E c \in Closers : CloseBegin(c)
    \/ \E c \in Closers : CloseEnd(c)

SpecClient == InitClientLife /\ [][NextClient]_vars

-----------------------------------------------------------------------------
(* Country resolution: the claims *)

Min(S) == CHOOSE x \in S : \A y \in S : x <= y

\* The records each resolution step selects, as sets of positions.
ExactNameSet ==
    IF _normalize_name(country_name) = "" THEN {}
    ELSE {i \in 1..Len(countries) :
            _normalize_name(countries[i].name) = _normalize_name(country_name)}

CodeSet ==
    IF mapped_code = "" THEN {}
    ELSE {i \in 1..Len(countries) :
            Lower(Strip(IF countries[i].country_code = None THEN ""
                        ELSE countries[i].country_code)) = mapped_code}

SubstringSet ==
    IF _normalize_name(country_name) = "" THEN {}
    ELSE {i \in 1..Len(countries) :
            \/ Contains(_normalize_name(countries[i].name),
                        _normalize_name(country_name))
            \/ Contains(_normalize_name(country_name),
                        _normalize_name(countries[i].name))}

ActiveSet == {i \in 1..Len(countries) : countries[i].is_active}

\* C2: the result is the id of the first record of the first step that
\* selects any record, the steps taken in the order exact name, overridden
\* code, substring, first active; so an exact-name match beats a code match
\* on another record, a code match beats a substring match, a substring
\* match beats the active fallback, and the fallback decides only when no
\* earlier step selects a record.
C2_Precedence ==
    rpc = "done" =>
        /\ match_id =
              IF ExactNameSet # {} THEN countries[Min(ExactNameSet)].id
              ELSE IF CodeSet # {} THEN countries[Min(CodeSet)].id
              ELSE IF SubstringSet # {} THEN countries[Min(SubstringSet)].id
              ELSE IF ActiveSet # {} THEN countries[Min(ActiveSet)].id
              ELSE None
        /\ (ExactNameSet \cup CodeSet \cup SubstringSet # {} /\ ActiveSet # {}
              /\ match_id = countries[Min(ActiveSet)].id)
             => Min(ActiveSet) \in ExactNameSet \cup CodeSet \cup SubstringSet

\* C2 witness: record 2 matches the name exactly, record 1 only the code,
\* and record 2 is returned.
C2_Witness ==
    /\ rpc = "done"
    /\ Len(countries) = 2
    /\ ExactNameSet = {2}
    /\ CodeSet = {1}
    /\ countries[1].is_active
    /\ match_id = "c2"

\* C4: the code compared is the trimmed, lower-cased candidate code sent
\* through the override table: "in" in any casing and with surrounding
\* blanks becomes "ind", each of the eleven listed codes becomes its
\* three-letter code, and any other code is compared unchanged.
C4_Overrides ==
    /\ \A kv \in { <<"vn", "vnm">>, <<"in", "ind">>, <<"et", "eth">>,
                    <<"id", "idn">>, <<"ph", "phl">>, <<"pk", "pak">>,
                    <<"bd", "bgd">>, <<"np", "npl">>, <<"ke", "ken">>,
                    <<"tz", "tza">>, <<"ug", "uga">> } :
            MappedCode(kv[1]) = kv[2]
    /\ rpc = "done" =>
        /\ country_code \in {" IN ", "In"} => mapped_code = "ind"
        /\ country_code = " vn " => mapped_code = "vnm"
        /\ country_code = "VNM" => mapped_code = "vnm"
        /\ country_code = "xx" => mapped_code = "xx"
        /\ country_code = None => mapped_code = ""
        /\ (country_code = " vn " /\ ExactNameSet = {}
              /\ \E i \in 1..Len(countries) : countries[i].country_code = "VNM")
             => match_id = countries[Min({i \in 1..Len(countries) :
                                countries[i].country_code = "VNM"})].id

\* C4 witness: " IN " was resolved and compared as "ind".
C4_Witness ==
    /\ rpc = "done"
    /\ country_code = " IN "
    /\ mapped_code = "ind"

-----------------------------------------------------------------------------
(* call_tool: the claims *)

\* a call_tool invocation is under way or has ended
Invoked == pc \in {"running", "done"} /\ tool_name # None

Ended == pc = "done" /\ tool_name # None

\* the "required" list of the descriptor of the resolved name
Required(n) ==
    IF n \in ToolNames(TOOLS)
    THEN LET d == CHOOSE t \in {TOOLS[i] : i \in 1..Len(TOOLS)} : t.name = n
         IN  {d.required[i] : i \in 1..Len(d.required)}
    ELSE {}

Coordinates == {"latitude", "longitude"}

\* the required-argument error names every required field
NamesRequired(text, n) ==
    /\ StartsWith(text, "Error:")
    /\ \A k \in Required(n) : Contains(text, k)
    /\ n = "rationsmart.cows.create" =>
            text = "Error: device_id and name are required"

\* C1 (amended): for every tool that declares required arguments, an
\* invocation with a mapping as argument bag in which a required identifier
\* (device_id, cow_id, name, diet_id, country_id) is absent or empty, or a
\* required coordinate (latitude, longitude) is absent, issues zero backend
\* operations and returns one text beginning with "Error:" that names the
\* required fields, for cows.create exactly
\* "Error: device_id and name are required".
C1_RequiredChecked ==
    (/\ Invoked
     /\ call_arguments.is_dict
     /\ \E k \in Required(call_name) :
            \/ call_arguments.kv[k] = Absent
            \/ k \notin Coordinates /\ call_arguments.kv[k] = "")
    => /\ ops = <<>>
       /\ ~propagated
       /\ pc = "running" => Step.kind = "return"
       /\ pc = "done" => NamesRequired(call_result, call_name)

\* C1 witness: create_cow was called with a name but no device_id and
\* answered with the required-fields error without any backend operation.
C1_Witness ==
    /\ Ended
    /\ tool_name = "create_cow"
    /\ call_arguments.kv["device_id"] = Absent
    /\ call_arguments.kv["name"] = "Ganga"
    /\ call_result = "Error: device_id and name are required"
    /\ ops = <<>>

\* C1 as written: any required argument absent or empty, the coordinates
\* included, gives the error that names the required fields.
C1_AsWritten ==
    (/\ Ended
     /\ call_arguments.is_dict
     /\ \E k \in Required(call_name) : call_arguments.kv[k] \in {Absent, ""})
    => /\ ops = <<>>
       /\ NamesRequired(call_result, call_name)

\* Where the invocation asked the backend for the country list (0: nowhere).
LookupAt ==
    IF \E i \in 1..Len(ops) : ops[i][1] = "get_countries"
    THEN CHOOSE i \in 1..Len(ops) : ops[i][1] = "get_countries"
    ELSE 0

\* the list has been delivered
LookedUp ==
    /\ LookupAt # 0
    /\ Len(replies) >= LookupAt
    /\ replies[LookupAt].ok

\* the candidates the handler resolves: its country_code and country_name
CandidateCode == Get(call_arguments, "country_code")
CandidateName == Get(call_arguments, "country_name")

\* some record of cs is selected by one of the four resolution steps
AnyStepSelects(cs, code_arg, name_arg) ==
    LET wanted == _normalize_name(name_arg)
        code == MappedCode(code_arg)
    IN  \E i \in 1..Len(cs) :
            \/ wanted # "" /\ _normalize_name(cs[i].name) = wanted
            \/ code # "" /\ _normalize_code(cs[i].country_code) = code
            \/ wanted # "" /\ \/ Contains(_normalize_name(cs[i].name), wanted)
                              \/ Contains(wanted, _normalize_name(cs[i].name))
            \/ cs[i].is_active

ProceedingOps == {"get_cow", "get_feeds", "post_diet_recommendation", "save_diet"}

\* C3: when no record of the delivered country list is selected by any
\* resolution step, _resolve_country_id gives no id, countries.resolve
\* returns "Error: unable to resolve country_id", and diets.generate returns
\* a text beginning with "Error:" with no cow, feed, optimization or save
\* operation issued.
C3_NoGuess ==
    (/\ Invoked
     /\ call_name \in {"rationsmart.countries.resolve", "rationsmart.diets.generate"}
     /\ call_arguments.is_dict
     /\ LookedUp
     /\ ~AnyStepSelects(replies[LookupAt].val, CandidateCode, CandidateName))
    => /\ _resolve_country_id(replies[LookupAt].val, CandidateCode, CandidateName) = None
       /\ Len(ops) = LookupAt
       /\ \A i \in 1..Len(ops) : ops[i][1] \notin ProceedingOps
       /\ ~propagated
       /\ pc = "running" => Step.kind = "return"
       /\ pc = "done" =>
            IF call_name = "rationsmart.countries.resolve"
            THEN call_result = "Error: unable to resolve country_id"
            ELSE StartsWith(call_result, "Error:")

\* C3 witness: diets.generate got a list whose only record is inactive and
\* matches neither candidate, and ended with an error after that one
\* operation.
C3_Witness ==
    /\ Ended
    /\ call_name = "rationsmart.diets.generate"
    /\ LookedUp
    /\ Len(replies[LookupAt].val) = 1
    /\ ~AnyStepSelects(replies[LookupAt].val, CandidateCode, CandidateName)
    /\ CandidateName = "Peru"
    /\ ops = << <<"get_countries">> >>
    /\ StartsWith(call_result, "Error:")

\* C5: every alias maps to the name of exactly one descriptor of TOOLS,
\* every canonical name resolves to itself, canonical names are pairwise
\* distinct, and the three tables are what they were built as, whatever
\* operation has run.
C5_Registry ==
    /\ \A a \in DOMAIN TOOL_ALIASES :
            Cardinality({i \in 1..Len(TOOLS) : TOOLS[i].name = TOOL_ALIASES[a]}) = 1
    /\ \A n \in ToolNames(TOOLS) : AliasGet(TOOL_ALIASES, n) = n
    /\ \A i, j \in 1..Len(TOOLS) : TOOLS[i].name = TOOLS[j].name => i = j
    /\ Len(TOOLS) = 14
    /\ Cardinality(DOMAIN TOOL_ALIASES) = 14
    /\ TOOLS = ToolTable
    /\ TOOL_ALIASES = AliasTable
    /\ TOOL_TITLES = TitleTable
    /\ DOMAIN TOOL_TITLES = ToolNames(TOOLS)
    /\ Invoked => call_name = AliasGet(TOOL_ALIASES, tool_name)
    /\ (pc = "done" /\ tool_name = None) => listing = TOOLS

\* C5 witness: a tool was called through an alias and ran to its end with
\* the registry as built.
C5_Witness ==
    /\ Ended
    /\ tool_name = "stop_following_diet"
    /\ call_name = "rationsmart.diets.unfollow"
    /\ Len(ops) = 1
    /\ TOOL_ALIASES[tool_name] \in ToolNames(TOOLS)

\* What call_tool(n, call_arguments) does against the first k replies of
\* this invocation's backend: the name is looked up in TOOL_ALIASES and the
\* handler of the result runs.
StepOf(n, k) ==
    Handler(AliasGet(TOOL_ALIASES, n), call_arguments, SubSeq(replies, 1, k))

\* the text call_tool(n, call_arguments) ends with against these replies
ResultOf(n) ==
    LET last == StepOf(n, Len(replies))
    IN  IF last.kind = "return" THEN last.text
        ELSE IF last.kind = "raise" THEN "Error: " \o last.text
        ELSE None

\* C6: an invocation through an alias and the invocation of the alias's
\* canonical name with the same argument bag, against the same backend
\* replies, issue the same backend operations in the same order and end
\* with the same text.
C6_AliasEquivalence ==
    (Invoked /\ tool_name \in DOMAIN TOOL_ALIASES)
    => LET canonical == TOOL_ALIASES[tool_name]
       IN  /\ \A k \in 1..Len(ops) :
                /\ StepOf(canonical, k - 1).kind = "call"
                /\ StepOf(canonical, k - 1).op = ops[k]
           /\ pc = "done" =>
                /\ StepOf(canonical, Len(replies)).kind # "call"
                /\ call_result = ResultOf(canonical)

\* C6 witness: get_cow, an alias of cows.get, ran one backend operation
\* and returned the cow's details.
C6_Witness ==
    /\ Ended
    /\ tool_name = "get_cow"
    /\ TOOL_ALIASES[tool_name] = "rationsmart.cows.get"
    /\ ops = << <<"get_cow", "cow1", "dev1">> >>
    /\ StartsWith(call_result, "Cow: Ganga")

\* C7: a name that is neither a canonical name nor an alias gives exactly
\* the text "Unknown tool: <name>", with no exception and no backend
\* operation, whatever the argument bag is (a mapping or not).
C7_UnknownTool ==
    (Invoked /\ tool_name \notin ToolNames(TOOLS) \cup DOMAIN TOOL_ALIASES)
    => /\ ops = <<>>
       /\ replies = <<>>
       /\ ~propagated
       /\ pc = "running" => Step = Return("Unknown tool: " \o tool_name)
       /\ pc = "done" => call_result = "Unknown tool: " \o tool_name

\* C7 witness: "Get_Countries" was called with an argument bag that is not
\* a mapping and got the unknown-tool text.
C7_Witness ==
    /\ Ended
    /\ tool_name = "Get_Countries"
    /\ ~call_arguments.is_dict
    /\ call_result = "Unknown tool: Get_Countries"

\* C8: no invocation lets an exception out of call_tool: whatever the name,
\* the argument bag and the backend's replies, an invocation that has ended
\* has a text result, and when its handler raised (a failed backend
\* operation, a missing key, an argument bag that is not a mapping, a
\* method the client lacks) the text is "Error: <message>".
C8_NoPropagation ==
    /\ ~propagated
    /\ Ended =>
        /\ call_result # None
        /\ Step.kind # "call"
        /\ Step.kind = "raise" => call_result = "Error: " \o Step.text
        /\ Step.kind = "return" => call_result = Step.text

\* C8 witness: the backend's reply to create_cow had no "name" key and the
\* KeyError came back as a text.
C8_Witness ==
    /\ Ended
    /\ call_name = "rationsmart.cows.create"
    /\ Len(replies) = 1
    /\ replies[1].ok
    /\ call_result = "Error: 'name'"
    /\ ~propagated

\* C9: in one invocation a failed backend operation is the last one: it is
\* not issued again and nothing is issued after it, and the invocation ends
\* at once with "Error: <cause>" or, in diets.schedule.get when the cause
\* says 404 or not found, with the no-active-diet message.
C9_NoRetry ==
    Invoked =>
        /\ Len(ops) = Len(replies)
        /\ \A i \in 1..Len(replies) : ~replies[i].ok => i = Len(replies)
        /\ (replies # <<>> /\ ~replies[Len(replies)].ok) =>
            LET cause == replies[Len(replies)].err
            IN  /\ pc = "running" => Step.kind # "call"
                /\ pc = "done" =>
                    \/ call_result = "Error: " \o cause
                    \/ /\ call_name = "rationsmart.diets.schedule.get"
                       /\ IsNotFound(cause)
                       /\ call_result = NoActiveDiet

\* C9 witness: in diets.generate the feeds request failed after two cow
\* requests; three operations were issued and the error text names the
\* cause.
C9_Witness ==
    /\ Ended
    /\ call_name = "rationsmart.diets.generate"
    /\ Len(ops) = 3
    /\ ops[3][1] = "get_feeds"
    /\ ~replies[3].ok
    /\ call_result = "Error: " \o replies[3].err

-----------------------------------------------------------------------------
(* The /mcp endpoint: the claims *)

\* the id a response has to carry: the request's, null when it has none
IdToEcho == IF request.is_dict /\ request.id # Absent THEN request.id ELSE None

\* C10: every request whose body parses as JSON, whatever its id, method
\* and params are (params and arguments that are not objects included), is
\* answered with a JSON-RPC envelope: jsonrpc "2.0", exactly one of result
\* and error, and the request's id (null when the request has none).
C10_AlwaysEnvelope ==
    (mpc \in {"responded", "crashed"} /\ request.parses)
    => /\ "payload" \in DOMAIN response
       /\ response.payload.jsonrpc = "2.0"
       /\ ("result" \in DOMAIN response.payload) # ("error" \in DOMAIN response.payload)
       /\ response.payload.id = IdToEcho

\* the request has been answered by a return of mcp_endpoint
Answered == mpc = "responded"

\* the payload is an error envelope with this code and message
IsErrorEnvelope(payload, code, message) ==
    /\ DOMAIN payload = {"jsonrpc", "id", "error"}
    /\ payload.jsonrpc = "2.0"
    /\ payload.error = [code |-> code, message |-> message]

\* C11: a body that parses but is not a JSON object, or an object whose
\* jsonrpc member is not the string "2.0" ("1.0", or missing), is answered
\* with HTTP 400 and the error -32600 "Invalid Request"; the envelope's id
\* is the request's id when the body is an object that has one, null
\* otherwise.
C11_InvalidRequest ==
    (/\ mpc \in {"responded", "crashed", "dispatched"}
     /\ request.parses
     /\ ~request.is_dict \/ request.jsonrpc # "2.0")
    => /\ Answered
       /\ response.status = 400
       /\ IsErrorEnvelope(response.payload, -32600, "Invalid Request")
       /\ response.payload.id = IdToEcho
       /\ pc = "idle"
       /\ ops = <<>>

\* C11 witness: a tools/call request tagged "1.0" with id "req-1" was
\* refused with -32600 and that id.
C11_Witness ==
    /\ Answered
    /\ request.is_dict
    /\ request.jsonrpc = "1.0"
    /\ request.id = "req-1"
    /\ request.method = "tools/call"
    /\ response.status = 400
    /\ response.payload.error.code = -32600
    /\ response.payload.id = "req-1"

KnownMethods == {"initialize", "tools/list", "tools/call"}

\* the request names no tool: params is missing or is not an object, or
\* its name member is missing, null or empty
WithoutToolName ==
    \/ ~request.params.is_dict
    \/ request.params.name \in {Absent, None, ""}

\* call_tool has not been invoked for the request
NotDispatched ==
    /\ tool_name = None
    /\ pc = "idle"
    /\ ops = <<>>
    /\ replies = <<>>

\* the request is over: mcp_endpoint returned or raised
Finished == mpc \in {"responded", "crashed"}

\* C12: a malformed request is refused without call_tool being invoked
\* and without any backend operation: an unparsable body with -32700 and
\* HTTP 400, a wrong protocol tag with -32600 and HTTP 400, a missing or
\* unknown method with -32601 and HTTP 404, a tools/call that names no tool
\* with -32602 and HTTP 400.
C12_MalformedRefused ==
    Finished =>
        /\ ~request.parses =>
            /\ NotDispatched
            /\ Answered
            /\ response.status = 400
            /\ IsErrorEnvelope(response.payload, -32700, "Parse error")
        /\ (request.is_dict /\ request.jsonrpc # "2.0") =>
            /\ NotDispatched
            /\ Answered
            /\ response.status = 400
            /\ IsErrorEnvelope(response.payload, -32600, "Invalid Request")
        /\ (request.is_dict /\ request.jsonrpc = "2.0"
              /\ request.method \notin KnownMethods) =>
            /\ NotDispatched
            /\ Answered
            /\ response.status = 404
            /\ IsErrorEnvelope(response.payload, -32601, "Method not found")
        /\ (request.is_dict /\ request.jsonrpc = "2.0"
              /\ request.method = "tools/call" /\ WithoutToolName) =>
            /\ NotDispatched
            /\ Answered
            /\ response.status = 400
            /\ IsErrorEnvelope(response.payload, -32602, "Missing tool name")

\* call_tool was invoked for the request and mcp_endpoint returned
DispatchedAndAnswered == Answered /\ tool_name # None

\* the tools/call result of the response
ResultOfResponse == response.payload.result

\* the text begins with "error:", each letter in either case
BeginsWithError(text) ==
    /\ Len(text) >= 6
    /\ \A i \in 1..5 : CharAt(text, i) \in {CharAt("error", i), CharAt("ERROR", i)}
    /\ CharAt(text, 6) = ":"

\* C13: the result envelope of a dispatched tools/call carries the text of
\* call_tool as its single content item, and isError is true exactly when
\* that text begins with "error:" compared case-insensitively: "Error: ..."
\* texts are flagged, "Unknown tool: ..." and the no-active-diet guidance are
\* not.
C13_ContentAndFlag ==
    DispatchedAndAnswered =>
        /\ DOMAIN response.payload = {"jsonrpc", "id", "result"}
        /\ DOMAIN ResultOfResponse = {"content", "isError"}
        /\ ResultOfResponse.content = << [type |-> "text", text |-> call_result] >>
        /\ ResultOfResponse.isError = BeginsWithError(call_result)
        /\ StartsWith(call_result, "Error:") => ResultOfResponse.isError
        /\ StartsWith(call_result, "Unknown tool:") => ~ResultOfResponse.isError
        /\ StartsWith(call_result, "No active diet.") => ~ResultOfResponse.isError

\* a backend failure was answered with a flagged result
C13_Witness ==
    /\ DispatchedAndAnswered
    /\ Len(replies) > 0
    /\ ~replies[Len(replies)].ok
    /\ StartsWith(call_result, "Error: ")
    /\ ResultOfResponse.content[1].text = call_result
    /\ ResultOfResponse.isError

\* the second of two exchanges over one request has ended
BothEnded == Finished /\ previous # NoExchange

\* the backend answered alike: the same value, or the same failure
SameReply(r, q) ==
    /\ r.ok = q.ok
    /\ IF r.ok THEN r.val = q.val ELSE r.err = q.err

\* the first n replies of the two exchanges are alike
SameReplies(n) ==
    /\ n <= Len(replies)
    /\ n <= Len(previous.replies)
    /\ \A j \in 1..n : SameReply(replies[j], previous.replies[j])

\* the backend behaved alike throughout the two exchanges
SameBackend ==
    /\ Len(replies) = Len(previous.replies)
    /\ SameReplies(Len(replies))

\* the framing of a response returned by mcp_endpoint
Framing(r) == <<r.media_type, r.before, r.after>>

WellFormedCall ==
    /\ request.parses
    /\ request.is_dict
    /\ request.jsonrpc = "2.0"
    /\ request.method = "tools/call"
    /\ request.params.is_dict
    /\ ~Falsy(Member(request.params.name))

\* C15: every well-formed tools/call request is answered with HTTP 200 and a
\* result envelope, whatever the tool did: never an HTTP 4xx/5xx and never
\* a JSON-RPC error object.
C15_AlwaysResult ==
    (Finished /\ WellFormedCall) =>
        /\ Answered
        /\ response.status = 200
        /\ DOMAIN response.payload = {"jsonrpc", "id", "result"}
        /\ response.payload.id = Member(request.id)

-----------------------------------------------------------------------------
(* The diet summary: the claims *)

\* _extract_diet_summary has run on a result and a feed names dict
Extracted == dpc \in {"summary", "rendered"} /\ diet_result # [none |-> TRUE]

LineItemsOf == diet_result.least_cost_diet

\* the feed id of the line item is a key of the feed names dict
InCatalog(it) == \E k \in 1..Len(diet_lookup) : diet_lookup[k][1] = it.feed_id

CatalogName(it) ==
    diet_lookup[CHOOSE k \in 1..Len(diet_lookup) : diet_lookup[k][1] = it.feed_id][2]

EmbeddedName(it) == IF it.feed_name = Absent THEN "Unknown" ELSE it.feed_name

\* q is g/2 rounded to one decimal of a kg: a whole number of tenths at
\* most half a tenth away
IsHalfRounded(q, g) ==
    /\ q % 100 = 0
    /\ 2 * q - g <= 100
    /\ g - 2 * q <= 100

\* the two dicts hold the same keys with the same values
SameMapping(d, e) ==
    {d[k] : k \in 1..Len(d)} = {e[k] : k \in 1..Len(e)}

\* what the summary has whatever the names are: two lists of the length of
\* the input, equal entry by entry, the halved quantities, no backend
\* operation, and no dependence on the insertion order of the dict
SummaryShape ==
    /\ Len(diet_out.morning) = Len(LineItemsOf)
    /\ Len(diet_out.evening) = Len(LineItemsOf)
    /\ \A i \in 1..Len(LineItemsOf) :
          /\ diet_out.evening[i] = diet_out.morning[i]
          /\ IsHalfRounded(diet_out.morning[i].quantity_g, LineItemsOf[i].quantity_g)
          /\ diet_out.morning[i].english_name = diet_out.morning[i].name
    /\ ops = <<>>
    /\ pc = "idle"
    /\ constructed = 0
    /\ \A other \in FeedNameDicts :
          SameMapping(other, diet_lookup)
          => _extract_diet_summary(diet_result, other) = diet_out

\* C16 as stated: the name of an entry is the catalog's whenever the feed id
\* is present in the catalog, else the embedded name, else "Unknown".
C16_AsWritten ==
    Extracted =>
        /\ SummaryShape
        /\ \A i \in 1..Len(LineItemsOf) :
              diet_out.morning[i].name =
                  IF InCatalog(LineItemsOf[i]) THEN CatalogName(LineItemsOf[i])
                  ELSE EmbeddedName(LineItemsOf[i])

\* C16: _extract_diet_summary returns morning and evening lists with one
\* entry per line item in input order, each quantity the daily quantity
\* halved and rounded to one decimal; the name is the catalog's when the
\* feed id is present there with a non-empty name, else the embedded name,
\* else "Unknown"; no backend operation is issued and the insertion order of
\* the catalog does not matter.
C16_Summary ==
    Extracted =>
        /\ SummaryShape
        /\ \A i \in 1..Len(LineItemsOf) :
              diet_out.morning[i].name =
                  IF InCatalog(LineItemsOf[i])
                     /\ ~Falsy(CatalogName(LineItemsOf[i]))
                  THEN CatalogName(LineItemsOf[i])
                  ELSE EmbeddedName(LineItemsOf[i])

\* 10 kg of a catalogued feed and a feed with neither catalog entry nor name
C16_Witness ==
    /\ Extracted
    /\ Len(LineItemsOf) = 2
    /\ LineItemsOf[1] = [feed_id |-> "f1", feed_name |-> "Corn", quantity_g |-> 10000]
    /\ LineItemsOf[2] = [feed_id |-> "f2", feed_name |-> Absent, quantity_g |-> 300]
    /\ diet_lookup = << <<"f3", "Hay">>, <<"f1", "Maize">> >>
    /\ diet_out.morning[1] = [name |-> "Maize", english_name |-> "Maize",
                              quantity_g |-> 5000]
    /\ diet_out.evening[1].quantity_g = 5000
    /\ diet_out.morning[2].name = "Unknown"
    /\ diet_out.morning[2].quantity_g = 100

\* _format_diet_schedule has run on the summary
Rendered == dpc = "rendered"

\* the entries of both periods
EntriesOf ==
    {diet_out.morning[i] : i \in 1..Len(diet_out.morning)}
    \cup {diet_out.evening[i] : i \in 1..Len(diet_out.evening)}

\* "<whole>.<tenth> kg" for the tenth of a kg nearest to q grams
ShownInKg(q) ==
    \E t \in 0..(10 * MaxKg) :
        /\ 100 * t - q <= 50
        /\ q - 100 * t <= 50
        /\ Contains(diet_text,
                    ": " \o ToString(t \div 10) \o "." \o ToString(t % 10) \o " kg")

\* C17: the rendering of a diet summary shows a positive quantity below 1 kg
\* in grams and not as a fraction of a kg (0.05 kg as "50 grams"), and a
\* quantity of 1 kg or more in kg with one decimal.
C17_GramsBelowOneKg ==
    Rendered =>
        /\ \A e \in EntriesOf :
              /\ (e.quantity_g > 0 /\ e.quantity_g < 1000) =>
                    Contains(diet_text, ": " \o ToString(e.quantity_g) \o " grams")
              /\ e.quantity_g >= 1000 => ShownInKg(e.quantity_g)
        /\ (\A e \in EntriesOf : e.quantity_g < 1000) => ~Contains(diet_text, " kg")
        /\ ~Contains(diet_text, ": 0.")
        /\ (\A e \in EntriesOf : e.quantity_g >= 1000) => ~Contains(diet_text, " grams")

\* a summary with 0.05 kg of maize in both periods
C17_Witness ==
    /\ Rendered
    /\ diet_out = Summary(<< [english_name |-> "Maize", name |-> "Corn",
                              quantity_g |-> 50] >>)
    /\ diet_text = "Morning Feeding:\n  - Maize: 50 grams\n\nEvening Feeding:\n  - Maize: 50 grams"

-----------------------------------------------------------------------------
(* diets.generate and diets.schedule.get: the claims *)

\* a backend operation of this name was issued and answered
Issued(name) == \E i \in 1..Len(replies) : ops[i][1] = name

\* the value returned by the first operation of this name
ReplyTo(name) == replies[CHOOSE i \in 1..Len(replies) : ops[i][1] = name].val

AllSucceeded == \A i \in 1..Len(replies) : replies[i].ok

\* the country is given by country_id, or a code or name is given that the
\* delivered country list resolves
Resolvable ==
    \/ ~Falsy(Get(call_arguments, "country_id"))
    \/ /\ ~Falsy(Get(call_arguments, "country_code"))
          \/ ~Falsy(Get(call_arguments, "country_name"))
       /\ Issued("get_countries")
       /\ replies[1].ok
       /\ _resolve_country_id(replies[1].val, Get(call_arguments, "country_code"),
                              Get(call_arguments, "country_name")) # None

\* a finished diets.generate call with valid identifiers and a resolvable
\* country against a backend on which every operation succeeded
HappyGenerate ==
    /\ pc = "done"
    /\ call_name = "rationsmart.diets.generate"
    /\ call_arguments.is_dict
    /\ ~Falsy(Get(call_arguments, "device_id"))
    /\ ~Falsy(Get(call_arguments, "cow_id"))
    /\ Resolvable
    /\ AllSucceeded

SaveWanted == call_arguments.kv["save_diet"] \in {Absent, True}

\* what the claim says of save_diet false
NothingSaved ==
    call_arguments.kv["save_diet"] = False =>
        /\ \A i \in 1..Len(ops) : ops[i][1] # "save_diet"
        /\ ~Contains(call_result, "Diet saved")

\* the feed list has a feed with an id
UsableFeeds ==
    \E i \in 1..Len(ReplyTo("get_feeds")) :
        \/ ~Falsy(ReplyTo("get_feeds")[i].feed_id)
        \/ ~Falsy(ReplyTo("get_feeds")[i].id)

ScheduleFailed ==
    /\ pc = "done"
    /\ call_name = "rationsmart.diets.schedule.get"
    /\ call_arguments.is_dict
    /\ Len(replies) > 0
    /\ ~replies[Len(replies)].ok

FailedOperation == ops[Len(replies)][1]

Cause == replies[Len(replies)].err

\* the message tells of a missing resource
NotFoundCause == Contains(Cause, "404") \/ Contains(Lower(Cause), "not found")

FriendlyText ==
    call_result = "No active diet. Generate a diet and use 'rationsmart.diets.follow' to start following it."

\* C19 as stated: only a not-found failure of the active-diet lookup gives
\* the friendly text, every other backend failure gives "Error: <cause>".
C19_AsWritten ==
    ScheduleFailed =>
        IF FailedOperation = "get_active_diet" /\ NotFoundCause
        THEN FriendlyText
        ELSE call_result = "Error: " \o Cause

\* C19: in diets.schedule.get a failure of the active-diet lookup or of the
\* cow fetch whose message contains "404" or "not found" gives the friendly
\* no-active-diet text, which is no "Error:" text; every other backend
\* failure gives "Error: <cause>".
C19_NotFoundFriendly ==
    ScheduleFailed =>
        /\ FailedOperation \in {"get_active_diet", "get_cow"}
        /\ IF NotFoundCause
           THEN FriendlyText /\ ~BeginsWithError(call_result)
           ELSE call_result = "Error: " \o Cause

\* the cow fetch answered 404 after the active-diet lookup succeeded
C19_Witness ==
    /\ ScheduleFailed
    /\ FailedOperation = "get_cow"
    /\ replies[1].ok
    /\ Contains(Cause, "404")
    /\ FriendlyText

-----------------------------------------------------------------------------
(* Geocoding: the claim *)

\* a finished call that supplies both coordinates and neither a country
\* code nor a country name (nor, for diets.generate, a country id), and
\* that passed the handler's check of its identifiers
CoordinatesOnly ==
    /\ pc = "done"
    /\ call_arguments.is_dict
    /\ Get(call_arguments, "latitude") = Zero
    /\ Get(call_arguments, "longitude") = Zero
    /\ \/ call_name = "rationsmart.location.resolve"
       \/ /\ call_name = "rationsmart.countries.resolve"
          /\ Falsy(Get(call_arguments, "country_code"))
          /\ Falsy(Get(call_arguments, "country_name"))
       \/ /\ call_name = "rationsmart.diets.generate"
          /\ ~Falsy(Get(call_arguments, "device_id"))
          /\ ~Falsy(Get(call_arguments, "cow_id"))
          /\ Falsy(Get(call_arguments, "country_id"))
          /\ Falsy(Get(call_arguments, "country_code"))
          /\ Falsy(Get(call_arguments, "country_name"))

\* C20: with coordinates and no country code or name the gateway asks the
\* backend's geocoding operation first and does not fail for want of it.
C20_Geocoded ==
    CoordinatesOnly =>
        /\ Len(ops) > 0
        /\ ops[1][1] = "resolve_location"
        /\ call_result # "Error: 'RationSmartClient' object has no attribute 'resolve_location'"

-----------------------------------------------------------------------------
(* The client handle: the claims *)

TheHandle == "RationSmartClient-1"

Running(t) == tasks[t].pc = "running"

\* C21: across concurrent tool calls without a shutdown in between exactly
\* one client handle is constructed, every call holds and uses that handle,
\* and the calls leave the module's other global state, the registry, as it
\* was built.
C21_OneHandle ==
    server = "serving" =>
        /\ constructed <= 1
        /\ \A t \in Tasks :
              Running(t) => /\ constructed = 1
                            /\ tasks[t].client = TheHandle
                            /\ _client = TheHandle
        /\ used \subseteq {TheHandle}
        /\ used # {} => constructed = 1
        /\ TOOLS = ToolTable
        /\ TOOL_ALIASES = AliasTable
        /\ TOOL_TITLES = TitleTable

\* three calls in flight on the one handle, two of them past an await
C21_Witness ==
    /\ server = "serving"
    /\ \A t \in Tasks : Running(t)
    /\ tasks[1].awaited = 1
    /\ tasks[2].awaited = 2
    /\ tasks[3].awaited = 0
    /\ used = {TheHandle}
    /\ constructed = 1

\* the handles constructed so far
Handles == {"RationSmartClient-" \o ToString(k) : k \in 1..constructed}

\* the handles that no close() was begun on
OpenHandles == Handles \ (closing \cup closed)

\* C22: once the serving session has terminated, a handle acquired during
\* it has been released: close_client was executed exactly once and no open
\* handle remains.
C22_Released ==
    (server = "terminated" /\ constructed > 0) =>
        /\ closes = 1
        /\ _client = None
        /\ OpenHandles = {}

-----------------------------------------------------------------------------
(* The order of operations in diets.generate: the claim *)

\* a diets.generate invocation with a mapping of arguments, under way or
\* finished
Generating ==
    /\ pc \in {"running", "done"}
    /\ call_name = "rationsmart.diets.generate"
    /\ call_arguments.is_dict

\* the place of an operation in the order of the claim
Rank(op) ==
    CASE op[1] = "get_countries" -> 1
      [] op[1] = "get_cow" -> 2
      [] op[1] = "get_feeds" -> 3
      [] op[1] = "post_diet_recommendation" -> 4
      [] op[1] = "save_diet" -> 5
      [] OTHER -> 0

\* how many of the operations issued have this name
Times(name) == Cardinality({i \in 1..Len(ops) : ops[i][1] = name})

\* C23: diets.generate issues its backend operations in the order country
\* list, cow, feed list, optimization, save; the country list is fetched
\* only without a country_id argument and with a code or name, never with
\* a country_id; the save is issued at most once, only after the
\* optimization succeeded and only when save_diet is not false.  (The cow is
\* fetched twice in a row, by the handler and by generate_diet_for_cow.)
C23_FixedOrder ==
    Generating =>
        /\ \A i \in 1..Len(ops) : Rank(ops[i]) > 0
        /\ \A i \in 1..Len(ops) : \A j \in i..Len(ops) : Rank(ops[i]) <= Rank(ops[j])
        /\ Times("get_countries") <= 1
        /\ Times("get_cow") <= 2
        /\ Times("get_feeds") <= 1
        /\ Times("post_diet_recommendation") <= 1
        /\ Times("save_diet") <= 1
        /\ Times("get_countries") = 1 =>
              /\ Falsy(Get(call_arguments, "country_id"))
              /\ \/ ~Falsy(Get(call_arguments, "country_code"))
                 \/ ~Falsy(Get(call_arguments, "country_name"))
        /\ Times("save_diet") = 1 =>
              /\ call_arguments.kv["save_diet"] # False
              /\ Len(ops) > 1
              /\ ops[Len(ops) - 1][1] = "post_diet_recommendation"
              /\ replies[Len(ops) - 1].ok
        /\ Times("get_feeds") = 1 => Times("get_cow") = 2
        /\ Times("post_diet_recommendation") = 1 => Times("get_feeds") = 1

\* the whole sequence, from the country list to the save
C23_Witness ==
    /\ Generating
    /\ pc = "done"
    /\ Len(ops) = 6
    /\ [i \in 1..6 |-> ops[i][1]] =
          <<"get_countries", "get_cow", "get_cow", "get_feeds",
            "post_diet_recommendation", "save_diet">>
    /\ AllSucceeded

\* C24: whatever the interleaving of get_client and close_client,
\* get_client never returns a handle that is closed or being closed: no
\* running task took its handle while the handle was in closing or closed.
C24_NeverStale ==
    \A t \in Tasks : Running(t) => ~tasks[t].stale

\* the second half of C24 taken alone: once a close_client has completed
\* and nothing has been acquired since, the global is cleared, so the next
\* get_client constructs
C24_ClearedAfterClose ==
    [][\A c \in Closers : CloseEnd(c) => _client' = None]_vars

-----------------------------------------------------------------------------
(* The substring step: the claim *)

\* the record the substring step selects (0: none)
SubstringMatch ==
    FirstIndex([i \in 1..Len(countries) |->
                   NameOverlaps(countries[i], _normalize_name(country_name))])

\* the substring step is reached and selects a record
SubstringDecides ==
    /\ rpc = "done"
    /\ _normalize_name(country_name) # ""
    /\ ExactNameSet = {}
    /\ CodeSet = {}
    /\ SubstringMatch # 0

\* C25: the record the substring step selects has a non-empty normalized
\* name which contains the non-empty normalized candidate name or is
\* contained in it; a record whose name is missing or empty is never
\* selected by the substring step.
C25_NamedRecordsOnly ==
    SubstringDecides =>
        /\ match_id = countries[SubstringMatch].id
        /\ countries[SubstringMatch].name \notin {None, ""}
        /\ _normalize_name(countries[SubstringMatch].name) # ""

-----------------------------------------------------------------------------
(* Line items and the rendered text: the claim *)

\* the start of the entry line of an entry of the summary
EntryLineOf(e) ==
    "  - " \o (IF ~Falsy(e.english_name) THEN e.english_name ELSE e.name) \o ": "

\* C26: every line item of the optimization result with a positive daily
\* quantity has an entry line in the "Morning Feeding:" and in the
\* "Evening Feeding:" section of the text rendered from the derived summary:
\* its morning and evening halves are positive and their lines are in the
\* text.
C26_NothingDropped ==
    (Rendered /\ Extracted) =>
        \A i \in 1..Len(LineItemsOf) :
            LineItemsOf[i].quantity_g > 0 =>
                /\ diet_out.morning[i].quantity_g > 0
                /\ diet_out.evening[i].quantity_g > 0
                /\ Contains(diet_text, "Morning Feeding:")
                /\ Contains(diet_text, "Evening Feeding:")
                /\ Contains(diet_text, EntryLineOf(diet_out.morning[i]))
                /\ Contains(diet_text, EntryLineOf(diet_out.evening[i]))

====
